---- MODULE Spec2Model ----
(***************************************************************************)
(* Model of the download orchestration of gdrivy: the RetryManager         *)
(* (src/src/services/retryManager.ts), the retry helpers of                *)
(* errorHandler.ts, the DownloadService, the download part of the zustand  *)
(* store and the App handlers that drive them.                             *)
(*                                                                         *)
(* JavaScript runs one handler at a time and yields only at an await, so   *)
(* every action below is one run-to-next-await segment of the code.        *)
(***************************************************************************)
EXTENDS Integers, Sequences, FiniteSets, TLC

VARIABLES
    heap,             \* the RetryState objects, by object identity
    retryStates,      \* RetryManager.retryStates: operationId -> object (Null: no entry)
    calls,            \* the executeWithRetry calls (and the handler that awaits each)
    lastOp,           \* history: the last RetryManager operation completed on an operationId
    acted,            \* history: the operationId the last RetryManager step was about
    downloads,        \* store.downloads: fileId -> DownloadProgress (NoTask: no entry)
    abortControllers, \* DownloadService.abortControllers: fileId -> owning call (Null: none)
    started,          \* how many downloads the user has started (Download or Retry)
    folder,           \* the loop of handleDownload over the members of a folder
    session,          \* server: req.session of the one browser session
    now,              \* server: Date.now(), in ms since the session began
    reply,            \* server: what the last request handled did (history)
    auth,             \* client store: user, isAuthenticated, isAuthLoading, authError, authErrorCode
    authCalls,        \* client store: the auth actions that are awaiting the server
    input,            \* the argument of the last call of a function under study
    output            \* what that call returned

authVars == <<session, now, reply, auth, authCalls>>

pureVars == <<input, output>>

vars == <<heap, retryStates, calls, lastOp, acted, downloads, abortControllers, started, folder,
          authVars, pureVars>>

----------------------------------------------------------------------------
(* Bounds of the model *)

MaxCalls == 2       \* executeWithRetry calls that may be in flight or remembered
MaxAttempts == 4    \* recordAttempt is modelled while attempts is below this
MaxStarted == 3     \* downloads the user starts (Download or Retry clicks)
MaxChunks == 2      \* chunks of a response body
MaxFolderStarted == 2   \* the same, where a folder is downloaded
MaxTicks == 5        \* steps of the server's clock

----------------------------------------------------------------------------
(* Constants of the program *)

ErrorCode ==
    {"INVALID_LINK", "FILE_NOT_FOUND", "ACCESS_DENIED", "QUOTA_EXCEEDED",
     "NETWORK_ERROR", "DOWNLOAD_FAILED", "API_ERROR"}

maxRetries == 3
initialDelay == 1000
backoffMultiplier == 2
maxDelay == 10000

FileSeq == <<"f1", "f2">>

Files == {FileSeq[i] : i \in 1..Len(FileSeq)}

operationId(fileId) == "download-" \o fileId

OpIds == {operationId(f) : f \in Files}

Slots == 1..MaxCalls
Null == 0

(* no handleDownload is looping over a folder *)
IdleFolder == [pc |-> "idle", index |-> 0]

(* downloads.get(fileId) of a file that has no task *)
NoTask == [status |-> "NoTask", progress |-> 0, error |-> "undefined"]
ObjIds == 1..(Cardinality(OpIds) + MaxCalls)

Min2(a, b) == IF a <= b THEN a ELSE b
Max2(a, b) == IF a >= b THEN a ELSE b

RECURSIVE Pow(_, _)
Pow(b, e) == IF e <= 0 THEN 1 ELSE b * Pow(b, e - 1)

----------------------------------------------------------------------------
(* errorHandler.ts: retry helpers *)

calculateRetryDelay_plus1(attempt) ==
    Min2(initialDelay * Pow(backoffMultiplier, attempt + 1), maxDelay)

calculateRetryDelay(attempt) ==
    Min2(initialDelay * Pow(backoffMultiplier, attempt), maxDelay)

createRetryState == [attempts |-> 0, lastError |-> "null", isRetrying |-> FALSE]

canRetry(state) == state.attempts < maxRetries

isRetryableError(code) == code = "NETWORK_ERROR" \/ code = "DOWNLOAD_FAILED"

----------------------------------------------------------------------------
(* Values an operation can throw.  extractErrorCode looks at three things: *)
(* whether the value is an Error, which of its probe substrings the        *)
(* lower-cased message contains, and the value's code property.            *)

Probes == {"network", "fetch", "not found", "404", "denied", "403", "401", "quota", "429"}

AppErrorOf(code) == [isError |-> FALSE, has |-> {}, code |-> code]

JsError(has, code) == [isError |-> TRUE, has |-> has, code |-> code]

(* the values the arbitrary operation throws: one for each way of being     *)
(* classified (by message, by code property, by neither)                    *)
Thrown ==
    {AppErrorOf("DOWNLOAD_FAILED"), AppErrorOf("INVALID_LINK"),
     JsError({"fetch"}, "none"), JsError({"network", "quota"}, "none"),
     JsError({"404"}, "none"), JsError({"denied"}, "none"),
     JsError({"quota"}, "none"), JsError({}, "20")}

(* the codes the arbitrary caller passes to recordAttempt *)
RecordCodes == {"NETWORK_ERROR", "QUOTA_EXCEEDED"}

extractErrorCode(error) ==
    IF error.isError /\ ("network" \in error.has \/ "fetch" \in error.has)
        THEN "NETWORK_ERROR"
    ELSE IF error.isError /\ ("not found" \in error.has \/ "404" \in error.has)
        THEN "FILE_NOT_FOUND"
    ELSE IF error.isError
            /\ ("denied" \in error.has \/ "403" \in error.has \/ "401" \in error.has)
        THEN "ACCESS_DENIED"
    ELSE IF error.isError /\ ("quota" \in error.has \/ "429" \in error.has)
        THEN "QUOTA_EXCEEDED"
    ELSE IF error.code \in ErrorCode
        THEN error.code
    ELSE "API_ERROR"

----------------------------------------------------------------------------
(* The RetryManager.  Its operations are functions of the record           *)
(*   M = [heap, retryStates, calls]                                        *)
(* so that a handler can run several of them in one step.  A RetryState is *)
(* an object: executeWithRetry keeps a reference to the object it got from *)
(* getState, while resetState puts a new object in the map.                *)

NoResult == [success |-> FALSE, error |-> "null", attempts |-> -1]

IdleCall ==
    [pc |-> "idle", op |-> "none", state |-> Null, result |-> NoResult,
     invoked |-> 0, fails |-> <<>>, delays |-> <<>>,
     startAttempts |-> 0, startAfter |-> "none", overlap |-> FALSE,
     file |-> "none", aborted |-> FALSE, answer |-> "none",
     receivedLength |-> 0, contentLength |-> 0, batch |-> FALSE]

InFlight(cs) == {c \in Slots : cs[c].pc \in {"operation", "delay"}}

Referenced(M) ==
    ({M.retryStates[o] : o \in OpIds} \cup {M.calls[c].state : c \in InFlight(M.calls)})
        \ {Null}

Alloc(M) ==
    CHOOSE i \in ObjIds \ Referenced(M) : \A j \in ObjIds \ Referenced(M) : i <= j

getState(M, op) ==
    IF M.retryStates[op] # Null
        THEN M
        ELSE LET o == Alloc(M)
             IN  [M EXCEPT !.heap[o] = createRetryState, !.retryStates[op] = o]

resetState_keep(M, op) == getState(M, op)

resetState(M, op) ==
    LET o == Alloc([M EXCEPT !.retryStates[op] = Null])
    IN  [M EXCEPT !.heap[o] = createRetryState, !.retryStates[op] = o]

clearState(M, op) == [M EXCEPT !.retryStates[op] = Null]

managerCanRetry(M, op) ==
    LET M1 == getState(M, op) IN canRetry(M1.heap[M1.retryStates[op]])

getRemainingAttempts(M, op) ==
    LET M1 == getState(M, op)
    IN  Max2(0, maxRetries - M1.heap[M1.retryStates[op]].attempts)

recordAttempt_shared(M, op, code) ==
    LET M1 == getState(M, op)
    IN  [M1 EXCEPT !.heap = [i \in ObjIds |->
                        [M1.heap[i] EXCEPT !.attempts = @ + 1, !.lastError = code]]]

recordAttempt(M, op, code) ==
    LET M1 == getState(M, op)
        o == M1.retryStates[op]
    IN  [M1 EXCEPT !.heap[o].attempts = @ + 1, !.heap[o].lastError = code]

(* executeWithRetry, line 81: the loop condition *)
LoopCondition(attempts) == attempts <= maxRetries

(* executeWithRetry, line 102: retry after this failure? *)
ShouldRetry_inclusive(code, attempts) ==
    isRetryableError(code) /\ attempts <= maxRetries

ShouldRetry_any(code, attempts) == attempts < maxRetries

ShouldRetry(code, attempts) ==
    isRetryableError(code) /\ attempts < maxRetries

(* lines 81-84 and 123-128: test the loop condition, then either invoke    *)
(* the operation (and wait for it) or leave the loop with the fallback.    *)
enterLoop(M, c) ==
    LET o == M.calls[c].state
        st == M.heap[o]
    IN  IF LoopCondition(st.attempts)
            THEN [M EXCEPT !.heap[o].isRetrying = (st.attempts > 0),
                           !.calls[c].pc = "operation",
                           !.calls[c].invoked = @ + 1]
            ELSE [M EXCEPT !.calls[c].pc = "returned",
                           !.calls[c].result =
                               [success |-> FALSE,
                                error |-> IF st.lastError # "null"
                                              THEN st.lastError ELSE "API_ERROR",
                                attempts |-> st.attempts]]

(* lines 79-84: the call up to its first await *)
executeWithRetry(M, c, op) ==
    LET M1 == getState(M, op)
        o == M1.retryStates[op]
    IN  enterLoop([M1 EXCEPT !.calls[c] =
                      [IdleCall EXCEPT !.pc = "start", !.op = op, !.state = o,
                                       !.startAttempts = M1.heap[o].attempts,
                                       !.overlap =
                                           \E d \in InFlight(M.calls) : M.calls[d].op = op]],
                  c)

onSuccess_priorAttempts(M, c) ==
    LET o == M.calls[c].state
        M1 == resetState(M, M.calls[c].op)
    IN  [M1 EXCEPT !.calls[c].pc = "returned",
                   !.calls[c].result =
                       [success |-> TRUE, error |-> "null",
                        attempts |-> M.heap[o].attempts]]

(* lines 86-92: the operation resolved *)
onSuccess(M, c) ==
    LET o == M.calls[c].state
        M1 == resetState(M, M.calls[c].op)
    IN  [M1 EXCEPT !.calls[c].pc = "returned",
                   !.calls[c].result =
                       [success |-> TRUE, error |-> "null",
                        attempts |-> M.heap[o].attempts + 1]]

(* lines 93-120: the operation threw *)
onError(M, c, error) ==
    LET o == M.calls[c].state
        errorCode == extractErrorCode(error)
        attempts == M.heap[o].attempts + 1
        M1 == [M EXCEPT !.heap[o].attempts = attempts,
                        !.heap[o].lastError = errorCode,
                        !.calls[c].fails = Append(@, errorCode)]
    IN  IF ShouldRetry(errorCode, attempts)
            THEN [M1 EXCEPT !.calls[c].pc = "delay",
                            !.calls[c].delays = Append(@, calculateRetryDelay(attempts - 1))]
            ELSE [M1 EXCEPT !.calls[c].pc = "returned",
                            !.calls[c].result =
                                [success |-> FALSE, error |-> errorCode,
                                 attempts |-> attempts]]

----------------------------------------------------------------------------
(* Bookkeeping shared by the actions *)

Cur == [heap |-> heap, retryStates |-> retryStates, calls |-> calls]

(* A call that overlaps another call on the same operationId is marked. *)
MarkOverlap(M) ==
    [M EXCEPT !.calls = [c \in Slots |->
        IF c \in InFlight(M.calls)
           /\ \E d \in InFlight(M.calls) : d # c /\ M.calls[d].op = M.calls[c].op
            THEN [M.calls[c] EXCEPT !.overlap = TRUE]
            ELSE M.calls[c]]]

(* The references to RetryState objects, in a fixed order: the map's, then  *)
(* those held by the calls in flight.                                      *)
Roots(M) ==
    [k \in 1..(Len(FileSeq) + MaxCalls) |->
        IF k <= Len(FileSeq) THEN M.retryStates[operationId(FileSeq[k])]
        ELSE IF (k - Len(FileSeq)) \in InFlight(M.calls)
            THEN M.calls[k - Len(FileSeq)].state
        ELSE Null]

(* Objects nothing refers to any more are forgotten and a finished call    *)
(* drops its reference.  Object identities carry no information beyond who *)
(* shares an object with whom, so the objects are renumbered in the order  *)
(* of Roots.                                                               *)
Renumbering(roots) ==
    LET first == [i \in ObjIds |->
                     IF \E k \in DOMAIN roots : roots[k] = i
                         THEN CHOOSE k \in DOMAIN roots :
                                  roots[k] = i /\ \A j \in 1..(k - 1) : roots[j] # i
                         ELSE 0]
    IN  [i \in ObjIds \cup {Null} |->
            IF i = Null \/ first[i] = 0 THEN Null
            ELSE 1 + Cardinality({j \in ObjIds : first[j] # 0 /\ first[j] < first[i]})]

Commit(M0) ==
    \E M1 \in {MarkOverlap(M0)} :
    \E rank \in {Renumbering(Roots(M1))} :
        /\ heap' = [n \in ObjIds |->
                       IF \E i \in ObjIds : rank[i] = n
                           THEN M1.heap[CHOOSE i \in ObjIds : rank[i] = n]
                           ELSE createRetryState]
        /\ retryStates' = [o \in OpIds |-> rank[M1.retryStates[o]]]
        /\ calls' = [c \in Slots |->
                        [M1.calls[c] EXCEPT !.state =
                            IF c \in InFlight(M1.calls) THEN rank[@] ELSE Null]]

Returned == {c \in Slots : calls[c].pc = "returned"}

FreeSlots == {c \in Slots : calls[c].pc = "idle"}

NextSlot == CHOOSE c \in FreeSlots : \A d \in FreeSlots : c <= d

Busy(op) == \E c \in InFlight(calls) : calls[c].op = op

(* history value after a step of call c: "execFail" once it has returned failure *)
AfterStep(M, c) ==
    IF M.calls[c].pc = "returned" /\ ~M.calls[c].result.success THEN "execFail" ELSE "other"

Exhausted(op) ==
    retryStates[op] # Null /\ heap[retryStates[op]].attempts >= maxRetries

----------------------------------------------------------------------------
(* Authentication: the values a session field, a request field and a field *)
(* of the client store start with.                                         *)

Undefined == "undefined"     \* a session or request field that is not set

(* JavaScript truthiness of a string-valued field: undefined and '' are falsy *)
Truthy(v) == v \notin {Undefined, ""}

(* req.session before anything was stored in it; expiresAt = 0: not set *)
NoSession ==
    [oauthState |-> Undefined, codeVerifier |-> Undefined, userId |-> Undefined,
     accessToken |-> Undefined, refreshToken |-> Undefined, expiresAt |-> 0,
     user |-> Undefined]

(* what a request did: the handler, the time and the session it started    *)
(* from, the calls of next(), the response, req.accessToken, the calls     *)
(* made to Google, whether the handler's catch block ran, and the state    *)
(* parameter of the query                                                  *)
NoReply ==
    [handler |-> "none", at |-> 0, before |-> NoSession,
     nextCalls |-> 0, nextError |-> FALSE, status |-> 0, code |-> "",
     accessToken |-> Undefined, refreshAttempted |-> FALSE, exchanged |-> FALSE,
     refreshFailed |-> FALSE, threw |-> FALSE, state |-> Undefined]

(* the auth part of the client store's initial state; "null" is null *)
initialAuth ==
    [user |-> "null", isAuthenticated |-> FALSE, isAuthLoading |-> FALSE,
     authError |-> "null", authErrorCode |-> "null"]

AuthActions == {"login", "logout", "checkAuth", "handleAuthCallback"}

(* no function has been called yet *)
NoCall == [of |-> "none"]

----------------------------------------------------------------------------
(* The RetryManager driven by an arbitrary caller that keeps the calls for *)
(* one operationId serialized (spec section 5), with an arbitrary          *)
(* operation.                                                              *)

(* nothing has happened yet in the application and in the session *)
Idle ==
    /\ heap = [i \in ObjIds |-> createRetryState]
    /\ retryStates = [o \in OpIds |-> Null]
    /\ calls = [c \in Slots |-> IdleCall]
    /\ lastOp = [o \in OpIds |-> "other"]
    /\ acted = "none"
    /\ downloads = [f \in Files |-> NoTask]
    /\ abortControllers = [f \in Files |-> Null]
    /\ started = 0
    /\ folder = IdleFolder
    /\ session = NoSession
    /\ now = 0
    /\ reply = NoReply
    /\ auth = initialAuth
    /\ authCalls = [a \in AuthActions |-> "idle"]

RInit ==
    /\ Idle
    /\ input = NoCall
    /\ output = NoCall

RCall(op) ==
    /\ Returned = {}
    /\ FreeSlots # {}
    /\ ~Busy(op)
    /\ LET c == NextSlot
           M == executeWithRetry(Cur, c, op)
           M1 == [M EXCEPT !.calls[c].startAfter = lastOp[op]]
       IN  /\ Commit(M1)
           /\ lastOp' = [lastOp EXCEPT ![op] = AfterStep(M1, c)]
    /\ acted' = op
    /\ UNCHANGED <<downloads, abortControllers, started, folder, authVars, pureVars>>

RResolve(c) ==
    /\ Returned = {}
    /\ calls[c].pc = "operation"
    /\ Commit(onSuccess(Cur, c))
    /\ lastOp' = [lastOp EXCEPT ![calls[c].op] = "other"]
    /\ acted' = calls[c].op
    /\ UNCHANGED <<downloads, abortControllers, started, folder, authVars, pureVars>>

RReject(c, error) ==
    /\ Returned = {}
    /\ calls[c].pc = "operation"
    /\ LET M == onError(Cur, c, error)
       IN  /\ Commit(M)
           /\ lastOp' = [lastOp EXCEPT ![calls[c].op] = AfterStep(M, c)]
    /\ acted' = calls[c].op
    /\ UNCHANGED <<downloads, abortControllers, started, folder, authVars, pureVars>>

RWake(c) ==
    /\ Returned = {}
    /\ calls[c].pc = "delay"
    /\ LET M == enterLoop(Cur, c)
       IN  /\ Commit(M)
           /\ lastOp' = [lastOp EXCEPT ![calls[c].op] = AfterStep(M, c)]
    /\ acted' = calls[c].op
    /\ UNCHANGED <<downloads, abortControllers, started, folder, authVars, pureVars>>

RRecordAttempt(op, code) ==
    /\ Returned = {}
    /\ ~Busy(op)
    /\ retryStates[op] # Null => heap[retryStates[op]].attempts < MaxAttempts
    /\ Commit(recordAttempt(Cur, op, code))
    /\ lastOp' = [lastOp EXCEPT ![op] = "other"]
    /\ acted' = op
    /\ UNCHANGED <<downloads, abortControllers, started, folder, authVars, pureVars>>

RResetState(op) ==
    /\ Returned = {}
    /\ ~Busy(op)
    /\ Commit(resetState(Cur, op))
    /\ lastOp' = [lastOp EXCEPT ![op] = IF Exhausted(op) THEN "resetExhausted" ELSE "other"]
    /\ acted' = op
    /\ UNCHANGED <<downloads, abortControllers, started, folder, authVars, pureVars>>

RClearState(op) ==
    /\ Returned = {}
    /\ ~Busy(op)
    /\ Commit(clearState(Cur, op))
    /\ lastOp' = [lastOp EXCEPT ![op] = "other"]
    /\ acted' = op
    /\ UNCHANGED <<downloads, abortControllers, started, folder, authVars, pureVars>>

(* canRetry and getRemainingAttempts create the entry they read *)
RCanRetry(op) ==
    /\ Returned = {}
    /\ ~Busy(op)
    /\ retryStates[op] = Null
    /\ Commit(getState(Cur, op))
    /\ acted' = op
    /\ UNCHANGED <<lastOp, downloads, abortControllers, started, folder, authVars, pureVars>>

(* the caller's continuation takes the result: it runs before any other task *)
RReturn(c) ==
    /\ calls[c].pc = "returned"
    /\ calls' = [calls EXCEPT ![c] = IdleCall]
    /\ UNCHANGED <<heap, retryStates, lastOp, acted, downloads, abortControllers, started, folder, authVars, pureVars>>

RNext ==
    \/ \E op \in OpIds : RCall(op)
    \/ \E c \in Slots : RResolve(c)
    \/ \E c \in Slots, error \in Thrown : RReject(c, error)
    \/ \E c \in Slots : RWake(c)
    \/ \E op \in OpIds, code \in RecordCodes : RRecordAttempt(op, code)
    \/ \E op \in OpIds : RResetState(op)
    \/ \E op \in OpIds : RClearState(op)
    \/ \E op \in OpIds : RCanRetry(op)
    \/ \E c \in Slots : RReturn(c)

SpecRetry == RInit /\ [][RNext]_vars

----------------------------------------------------------------------------
(* errorHandler.ts: the message table *)

errorMessages ==
    [c \in ErrorCode |->
        CASE c = "INVALID_LINK" ->
                 [message |-> "Link tidak valid. Pastikan link berasal dari Google Drive.",
                  suggestion |-> "Coba paste ulang link dari Google Drive"]
          [] c = "FILE_NOT_FOUND" ->
                 [message |-> "File tidak ditemukan. File mungkin sudah dihapus atau bersifat private.",
                  suggestion |-> "Jika file bersifat private, coba login dengan akun Google yang memiliki akses"]
          [] c = "ACCESS_DENIED" ->
                 [message |-> "File ini bersifat private atau memerlukan izin akses.",
                  suggestion |-> "Login dengan akun Google untuk mengakses file private"]
          [] c = "QUOTA_EXCEEDED" ->
                 [message |-> "Kuota download Google Drive telah habis.",
                  suggestion |-> "Coba lagi dalam beberapa jam atau gunakan akun berbeda"]
          [] c = "NETWORK_ERROR" ->
                 [message |-> "Koneksi internet bermasalah.",
                  suggestion |-> "Periksa koneksi internet dan coba lagi"]
          [] c = "DOWNLOAD_FAILED" ->
                 [message |-> "Download gagal.",
                  suggestion |-> "Klik tombol retry untuk mencoba lagi"]
          [] c = "API_ERROR" ->
                 [message |-> "Terjadi kesalahan pada server.",
                  suggestion |-> "Coba lagi dalam beberapa saat"]]

getErrorMessage(code) ==
    IF code \in DOMAIN errorMessages
        THEN errorMessages[code]
        ELSE [message |-> "Terjadi kesalahan yang tidak diketahui.",
              suggestion |-> "Coba lagi atau hubungi support"]

createAppError(code) ==
    [code |-> code, message |-> getErrorMessage(code).message,
     suggestion |-> getErrorMessage(code).suggestion]

----------------------------------------------------------------------------
(* The server side of GET /api/download/:fileId, as far as the status of   *)
(* its answer goes: GoogleDriveService.handleApiError classifies the       *)
(* upstream failure and the errorHandler middleware answers with the       *)
(* classification's statusCode.                                            *)

UpstreamErrors ==
    {[code |-> 404, reason |-> "notFound"],
     [code |-> 403, reason |-> "rateLimitExceeded"],
     [code |-> 403, reason |-> "userRateLimitExceeded"],
     [code |-> 403, reason |-> "forbidden"],
     [code |-> 401, reason |-> "authError"],
     [code |-> 400, reason |-> "badRequest"],
     [code |-> 500, reason |-> "backendError"],
     [code |-> 504, reason |-> "gatewayTimeout"],
     [code |-> 0, reason |-> "undefined"]}

RateLimited == {"rateLimitExceeded", "userRateLimitExceeded"}

handleApiError(e) ==
    LET statusCode == IF e.code # 0 THEN e.code ELSE 500
    IN  CASE statusCode = 404 -> [code |-> "FILE_NOT_FOUND", statusCode |-> 404]
          [] statusCode = 403 /\ e.reason \in RateLimited ->
                 [code |-> "QUOTA_EXCEEDED", statusCode |-> 429]
          [] statusCode = 403 /\ e.reason \notin RateLimited ->
                 [code |-> "ACCESS_DENIED", statusCode |-> 403]
          [] statusCode = 401 -> [code |-> "ACCESS_DENIED", statusCode |-> 401]
          [] OTHER -> [code |-> "API_ERROR", statusCode |-> statusCode]

errorHandler(err) == err.statusCode

----------------------------------------------------------------------------
(* DownloadService *)

mapHttpErrorToCode(status, serverCode) ==
    IF serverCode \in ErrorCode THEN serverCode
    ELSE CASE status = 400 -> "INVALID_LINK"
           [] status \in {401, 403} -> "ACCESS_DENIED"
           [] status = 404 -> "FILE_NOT_FOUND"
           [] status = 429 -> "QUOTA_EXCEEDED"
           [] status \in {500, 502, 503} -> "API_ERROR"
           [] OTHER -> "NETWORK_ERROR"

(* downloadFile, lines 314-323: what the operation throws on a response    *)
(* that is not ok                                                          *)
ThrownForStatus(status) ==
    IF status = 401 THEN AppErrorOf(createAppError("ACCESS_DENIED").code)
    ELSE AppErrorOf(createAppError(mapHttpErrorToCode(status, "undefined")).code)

(* What fetch and the body reader reject with when no answer arrives: a    *)
(* TypeError whose message depends on the browser ("Failed to fetch",      *)
(* "NetworkError when attempting to fetch resource.", "network error",     *)
(* "Load failed"); and downloadFile's own Error for a missing body.        *)
TransportErrors ==
    {JsError({"fetch"}, "none"), JsError({"network", "fetch"}, "none"),
     JsError({"network"}, "none"), JsError({}, "none")}

(* What they reject with after abort(): a DOMException named AbortError    *)
(* (code 20) whose message depends on the browser ("The user aborted a     *)
(* request.", "The operation was aborted.", "Fetch is aborted").           *)
AbortErrors == {JsError({}, "20"), JsError({"fetch"}, "20")}

----------------------------------------------------------------------------
(* The store's download actions, as functions of the downloads map.  The   *)
(* speed, fileName and fileSize fields are left out: nothing reads them    *)
(* back into the control flow.                                             *)

startDownload(ds, fileId) ==
    [ds EXCEPT ![fileId] = [status |-> "pending", progress |-> 0, error |-> "undefined"]]

cancelDownload(ds, fileId) ==
    IF ds[fileId] # NoTask
        THEN [ds EXCEPT ![fileId] =
                 [ds[fileId] EXCEPT !.status = "cancelled",
                                    !.error = "Download cancelled by user"]]
        ELSE ds

retryDownload(ds, fileId) ==
    IF ds[fileId] # NoTask /\ ds[fileId].status \in {"failed", "cancelled"}
        THEN [ds EXCEPT ![fileId] =
                 [status |-> "pending", progress |-> 0, error |-> "undefined"]]
        ELSE ds

updateDownloadProgress_replace(ds, fileId, patch) ==
    IF ds[fileId] # NoTask
        THEN [ds EXCEPT ![fileId] =
                 [k \in DOMAIN ds[fileId] |->
                     IF k \in DOMAIN patch THEN patch[k] ELSE NoTask[k]]]
        ELSE ds

updateDownloadProgress(ds, fileId, patch) ==
    IF ds[fileId] # NoTask
        THEN [ds EXCEPT ![fileId] =
                 [k \in DOMAIN ds[fileId] |->
                     IF k \in DOMAIN patch THEN patch[k] ELSE ds[fileId][k]]]
        ELSE ds

(* App: isDownloading, which disables the Download button *)
isDownloading ==
    \E f \in Files :
        downloads[f] # NoTask /\ downloads[f].status \in {"downloading", "pending"}

----------------------------------------------------------------------------
(* The App handlers.  A handler runs up to its next await in one step; the *)
(* continuation of an await that has settled runs before any other task.   *)

DInit == RInit

(* downloadFile, lines 288-296: register a new AbortController and run     *)
(* executeWithRetry up to the first await                                  *)
downloadFile(c, fileId, ds, controllers, batch) ==
    /\ Commit([executeWithRetry(Cur, c, operationId(fileId))
                  EXCEPT !.calls[c].file = fileId, !.calls[c].batch = batch])
    /\ abortControllers' = [controllers EXCEPT ![fileId] = c]
    /\ downloads' = ds
    /\ UNCHANGED <<lastOp, acted>>

(* handleDownload for a single file, lines 147-159 *)
handleDownload(fileId) ==
    /\ Returned = {}
    /\ FreeSlots # {} /\ started < MaxStarted
    /\ ~isDownloading
    /\ downloadFile(NextSlot, fileId,
                    updateDownloadProgress(startDownload(downloads, fileId), fileId,
                                           [status |-> "downloading"]),
                    abortControllers, FALSE)
    /\ started' = started + 1
    /\ UNCHANGED <<folder, authVars, pureVars>>

(* handleRetry, lines 182-195; DownloadItem shows the button for a failed  *)
(* or cancelled task                                                       *)
handleRetry(fileId) ==
    /\ Returned = {}
    /\ FreeSlots # {} /\ started < MaxStarted
    /\ downloads[fileId] # NoTask
    /\ downloads[fileId].status \in {"failed", "cancelled"}
    /\ downloadFile(NextSlot, fileId,
                    updateDownloadProgress(retryDownload(downloads, fileId), fileId,
                                           [status |-> "downloading"]),
                    abortControllers, FALSE)
    /\ started' = started + 1
    /\ UNCHANGED <<folder, authVars, pureVars>>

(* DownloadService.cancelDownload *)
serviceCancelDownload(fileId) ==
    LET controller == abortControllers[fileId]
    IN  IF controller # Null
            THEN /\ calls' = [calls EXCEPT ![controller].aborted = TRUE]
                 /\ abortControllers' = [abortControllers EXCEPT ![fileId] = Null]
            ELSE UNCHANGED <<calls, abortControllers>>

(* handleCancel, lines 215-218; DownloadItem shows the button for a        *)
(* pending or downloading task                                             *)
handleCancel(fileId) ==
    /\ Returned = {}
    /\ downloads[fileId] # NoTask
    /\ downloads[fileId].status \in {"pending", "downloading"}
    /\ serviceCancelDownload(fileId)
    /\ downloads' = cancelDownload(downloads, fileId)
    /\ UNCHANGED <<heap, retryStates, lastOp, acted, started, folder, authVars, pureVars>>

Awaiting(c) == Returned = {} /\ calls[c].pc = "operation"

(* the invocation of the operation is over: its locals are gone *)
EndInvocation(M, c, answer) ==
    [M EXCEPT !.calls[c].answer = answer,
              !.calls[c].receivedLength = 0, !.calls[c].contentLength = 0]

(* the server answered with an error status *)
ResponseError(c, e) ==
    /\ Awaiting(c) /\ ~calls[c].aborted
    /\ calls[c].receivedLength = 0
    /\ Commit(EndInvocation(
                  onError(Cur, c, ThrownForStatus(errorHandler(handleApiError(e)))),
                  c, e.reason))
    /\ UNCHANGED <<lastOp, acted, downloads, abortControllers, started, folder, authVars, pureVars>>

(* fetch or a read of the body failed without an answer *)
TransportFailure(c, error) ==
    /\ Awaiting(c) /\ ~calls[c].aborted
    /\ Commit(EndInvocation(onError(Cur, c, error), c, "none"))
    /\ UNCHANGED <<lastOp, acted, downloads, abortControllers, started, folder, authVars, pureVars>>

(* the signal was aborted while fetch or a read of the body was pending *)
AbortRejection(c, error) ==
    /\ Awaiting(c) /\ calls[c].aborted
    /\ error \in AbortErrors
    /\ Commit(EndInvocation(onError(Cur, c, error), c, "none"))
    /\ UNCHANGED <<lastOp, acted, downloads, abortControllers, started, folder, authVars, pureVars>>

(* the body was read to its end: lines 376-383, then lines 86-92 of        *)
(* executeWithRetry                                                        *)
StreamDone(c) ==
    /\ Awaiting(c) /\ ~calls[c].aborted
    /\ Commit(EndInvocation(onSuccess(Cur, c), c, "ok"))
    /\ downloads' = updateDownloadProgress(downloads, calls[c].file, [progress |-> 100])
    /\ UNCHANGED <<lastOp, acted, abortControllers, started, folder, authVars, pureVars>>

(* the backoff delay is over: the loop is entered again; with the signal   *)
(* already aborted, fetch rejects at once                                  *)
BackoffOver(c, error) ==
    /\ Returned = {} /\ calls[c].pc = "delay"
    /\ \E M \in {enterLoop(Cur, c)} :
           IF calls[c].aborted /\ M.calls[c].pc = "operation"
               THEN /\ error \in AbortErrors
                    /\ Commit(EndInvocation(onError(M, c, error), c, "none"))
               ELSE /\ error = JsError({}, "20")
                    /\ Commit(M)
    /\ UNCHANGED <<lastOp, acted, downloads, abortControllers, started, folder, authVars, pureVars>>

(* executeWithRetry has returned: the rest of downloadFile (lines 387-409) *)
(* and of the handler (lines 161-176, 197-211)                             *)
Continuation(c) ==
    /\ calls[c].pc = "returned" /\ ~calls[c].batch
    /\ abortControllers' = [abortControllers EXCEPT ![calls[c].file] = Null]
    /\ downloads' =
           IF calls[c].result.success
               THEN updateDownloadProgress(downloads, calls[c].file,
                        [status |-> "completed", progress |-> 100])
               ELSE updateDownloadProgress(downloads, calls[c].file,
                        [status |-> "failed",
                         error |-> createAppError(calls[c].result.error).message])
    /\ calls' = [calls EXCEPT ![c] = IdleCall]
    /\ UNCHANGED <<heap, retryStates, lastOp, acted, started, folder, authVars, pureVars>>

DNext ==
    \/ \E f \in Files : handleDownload(f)
    \/ \E f \in Files : handleRetry(f)
    \/ \E f \in Files : handleCancel(f)
    \/ \E c \in Slots, e \in UpstreamErrors : ResponseError(c, e)
    \/ \E c \in Slots, error \in TransportErrors : TransportFailure(c, error)
    \/ \E c \in Slots, error \in AbortErrors : AbortRejection(c, error)
    \/ \E c \in Slots : StreamDone(c)
    \/ \E c \in Slots, error \in AbortErrors : BackoffOver(c, error)
    \/ \E c \in Slots : Continuation(c)

SpecDownload == DInit /\ [][DNext]_vars

----------------------------------------------------------------------------
(* Progress events.  reader.read() delivers a chunk (lines 350-374);       *)
(* whether at least 100 ms have passed since the last report is up to the  *)
(* clock.  contentLength is the response's Content-Length, 0 without one.  *)

progressOf(receivedLength, contentLength) ==
    IF contentLength > 0 THEN (receivedLength * 100) \div contentLength ELSE 0

ChunkRead(c, length, report) ==
    /\ Awaiting(c) /\ ~calls[c].aborted
    /\ calls[c].receivedLength < MaxChunks
    /\ length \in {0, MaxChunks}
    /\ calls[c].receivedLength > 0 => length = calls[c].contentLength
    /\ calls' = [calls EXCEPT ![c].receivedLength = @ + 1, ![c].contentLength = length]
    /\ downloads' =
           IF report
               THEN updateDownloadProgress(downloads, calls[c].file,
                        [progress |-> progressOf(calls[c].receivedLength + 1, length)])
               ELSE downloads
    /\ UNCHANGED <<heap, retryStates, lastOp, acted, abortControllers, started, folder, authVars, pureVars>>

(* the failures drawn while progress is followed: one that is not         *)
(* retryable (an upstream 404) and one that is (a TypeError of fetch)      *)
ProgressUpstream == {e \in UpstreamErrors : e.code = 404}

ProgressTransport == {error \in TransportErrors : error.has = {"fetch"}}

PNext ==
    \/ \E f \in Files : handleDownload(f)
    \/ \E f \in Files : handleRetry(f)
    \/ \E f \in Files : handleCancel(f)
    \/ \E c \in Slots, e \in ProgressUpstream : ResponseError(c, e)
    \/ \E c \in Slots, error \in ProgressTransport : TransportFailure(c, error)
    \/ \E c \in Slots, error \in AbortErrors : AbortRejection(c, error)
    \/ \E c \in Slots : StreamDone(c)
    \/ \E c \in Slots, error \in AbortErrors : BackoffOver(c, error)
    \/ \E c \in Slots : Continuation(c)
    \/ \E c \in Slots, length \in {0, MaxChunks}, report \in BOOLEAN :
           ChunkRead(c, length, report)

SpecProgress == DInit /\ [][PNext]_vars

----------------------------------------------------------------------------
(* handleDownload of a folder, lines 110-145: a task for every member,     *)
(* then one member after the other.  One such handler runs at a time.      *)

RECURSIVE startAll(_, _)
startAll(ds, n) ==
    IF n = 0 THEN ds ELSE startDownload(startAll(ds, n - 1), FileSeq[n])

NextMember(index) == index + 1

LoopGoesOn_breakOnFailure(success, index) == success /\ index < Len(FileSeq)

LoopGoesOn(success, index) == index < Len(FileSeq)

handleDownloadFolder ==
    /\ Returned = {}
    /\ FreeSlots # {} /\ started < MaxFolderStarted
    /\ ~isDownloading
    /\ folder.pc = "idle"
    /\ downloadFile(NextSlot, FileSeq[1],
                    updateDownloadProgress(startAll(downloads, Len(FileSeq)), FileSeq[1],
                                           [status |-> "downloading"]),
                    abortControllers, TRUE)
    /\ folder' = [pc |-> "running", index |-> 1]
    /\ started' = started + 1
    /\ UNCHANGED <<authVars, pureVars>>

FolderContinuation_noAwait(c) ==
    /\ Returned = {} /\ FreeSlots # {}
    /\ calls[c].pc = "operation" /\ calls[c].batch
    /\ LoopGoesOn(TRUE, folder.index)
    /\ downloadFile(NextSlot, FileSeq[NextMember(folder.index)],
                    updateDownloadProgress(downloads, FileSeq[NextMember(folder.index)],
                                           [status |-> "downloading"]),
                    abortControllers, TRUE)
    /\ folder' = [folder EXCEPT !.index = NextMember(folder.index)]
    /\ UNCHANGED <<started, authVars, pureVars>>

(* the call for a member has returned: the rest of downloadFile, the rest  *)
(* of the loop body (lines 128-143) and the next turn of the loop up to    *)
(* its await                                                               *)
FolderContinuation(c) ==
    /\ calls[c].pc = "returned" /\ calls[c].batch
    /\ LET fileId == calls[c].file
           controllers == [abortControllers EXCEPT ![fileId] = Null]
           ds == IF calls[c].result.success
                     THEN updateDownloadProgress(downloads, fileId,
                              [status |-> "completed", progress |-> 100])
                     ELSE updateDownloadProgress(downloads, fileId,
                              [status |-> "failed",
                               error |-> createAppError(calls[c].result.error).message])
           next == NextMember(folder.index)
       IN  IF LoopGoesOn(calls[c].result.success, folder.index)
               THEN /\ downloadFile(c, FileSeq[next],
                                    updateDownloadProgress(ds, FileSeq[next],
                                                           [status |-> "downloading"]),
                                    controllers, TRUE)
                    /\ folder' = [folder EXCEPT !.index = next]
               ELSE /\ calls' = [calls EXCEPT ![c] = IdleCall]
                    /\ abortControllers' = controllers
                    /\ downloads' = ds
                    /\ folder' = IdleFolder
                    /\ UNCHANGED <<heap, retryStates, lastOp, acted>>
    /\ UNCHANGED <<started, authVars, pureVars>>

(* fetch or the read of the body settles, one way or the other *)
Settle(c) ==
    \/ \E e \in ProgressUpstream : ResponseError(c, e)
    \/ \E error \in ProgressTransport : TransportFailure(c, error)
    \/ \E error \in AbortErrors : AbortRejection(c, error)
    \/ StreamDone(c)

FNext ==
    \/ handleDownloadFolder
    \/ \E f \in Files : started < MaxFolderStarted /\ handleRetry(f)
    \/ \E f \in Files : handleCancel(f)
    \/ \E c \in Slots, e \in ProgressUpstream : ResponseError(c, e)
    \/ \E c \in Slots, error \in ProgressTransport : TransportFailure(c, error)
    \/ \E c \in Slots, error \in AbortErrors : AbortRejection(c, error)
    \/ \E c \in Slots : StreamDone(c)
    \/ \E c \in Slots, error \in AbortErrors : BackoffOver(c, error)
    \/ \E c \in Slots : Continuation(c)
    \/ \E c \in Slots : FolderContinuation(c)

SpecFolder == DInit /\ [][FNext]_vars

(* a step of the program, as opposed to one of the user: a request        *)
(* settles, a timer fires or the continuation of a settled promise runs    *)
ProgramStep ==
    \E c \in Slots :
        \/ Settle(c)
        \/ \E error \in AbortErrors : BackoffOver(c, error)
        \/ Continuation(c)
        \/ FolderContinuation(c)

(* The program is not held up for ever; the user need not do anything.     *)
SpecFolderFair == SpecFolder /\ WF_vars(ProgramStep)

----------------------------------------------------------------------------
(* The server's authentication: the OAuth service (oauth.ts), the          *)
(* middleware extractUserToken and requireAuth (server/src/middleware/     *)
(* auth.ts) and the routes of /api/auth.  The session store is the default *)
(* MemoryStore of express-session; the requests of the one session are     *)
(* handled one after the other, so a handler with its awaits is one step.  *)

downloadVars ==
    <<heap, retryStates, calls, lastOp, acted, downloads, abortControllers, started, folder>>

bufferTime == 5 * 60 * 1000          \* isTokenExpired: 5 minutes buffer
defaultLifetime == 3600 * 1000       \* expiry_date || Date.now() + 3600 * 1000
TickMs == bufferTime \div 2          \* granularity of the model's clock

AccessTokens == {"a1", "a2"}
RefreshTokens == {"r1", "r2"}
OAuthStates == {"s1", "s2"}          \* crypto.randomBytes(16).toString('hex')
GoogleUsers == {"u1"}
NotAString == "[array]"              \* a query parameter given more than once

(* what Google's token endpoint can answer at time t: an error, or tokens  *)
(* with or without access_token, refresh_token and expiry_date (0: none)   *)
Refused ==
    [ok |-> FALSE, access_token |-> Undefined, refresh_token |-> Undefined, expiry_date |-> 0]

GoogleAnswers(t) ==
    {Refused}
    \cup [ok : {TRUE},
          access_token : AccessTokens \cup {Undefined},
          refresh_token : {Undefined, "r2"},
          expiry_date : {0, t + bufferTime, t + 2 * bufferTime}]

(* the answers that matter to a request: all of them where the handler     *)
(* calls Google, and none to choose from where it does not                 *)
Answers(called, t) == IF called THEN GoogleAnswers(t) ELSE {Refused}

(* a TokenSet, or Thrown for an OAuthError *)
OAuthThrown == [thrown |-> TRUE, accessToken |-> Undefined, refreshToken |-> Undefined, expiresAt |-> 0]

TokenSet(accessToken, refreshToken, expiresAt) ==
    [thrown |-> FALSE, accessToken |-> accessToken, refreshToken |-> refreshToken,
     expiresAt |-> expiresAt]

exchangeCode(g, t) ==
    IF ~g.ok \/ ~Truthy(g.access_token) THEN OAuthThrown
    ELSE TokenSet(g.access_token,
                  IF Truthy(g.refresh_token) THEN g.refresh_token ELSE "",
                  IF g.expiry_date # 0 THEN g.expiry_date ELSE t + defaultLifetime)

refreshAccessToken(refreshToken, g, t) ==
    IF ~g.ok \/ ~Truthy(g.access_token) THEN OAuthThrown
    ELSE TokenSet(g.access_token,
                  IF Truthy(g.refresh_token) THEN g.refresh_token ELSE refreshToken,
                  IF g.expiry_date # 0 THEN g.expiry_date ELSE t + defaultLifetime)

isTokenExpired_late(t, expiresAt) == t >= expiresAt

isTokenExpired(t, expiresAt) == t >= expiresAt - bufferTime

clearAuthSession_keepTokens(s) == [s EXCEPT !.user = Undefined, !.userId = Undefined]

clearAuthSession(s) ==
    [s EXCEPT !.accessToken = Undefined, !.refreshToken = Undefined, !.expiresAt = 0,
              !.user = Undefined, !.userId = Undefined]

(* the session with the three token fields of a TokenSet stored in it *)
storeTokens(s, tokens) ==
    [s EXCEPT !.accessToken = tokens.accessToken, !.refreshToken = tokens.refreshToken,
              !.expiresAt = tokens.expiresAt]

(* attemptTokenRefresh: the result, the session it leaves and whether      *)
(* refreshAccessToken was called                                           *)
attemptTokenRefresh(s, t, g) ==
    IF ~Truthy(s.refreshToken)
    THEN [success |-> FALSE, accessToken |-> Undefined, session |-> s, called |-> FALSE]
    ELSE LET tokens == refreshAccessToken(s.refreshToken, g, t)
         IN  IF tokens.thrown
             THEN [success |-> FALSE, accessToken |-> Undefined, session |-> s, called |-> TRUE]
             ELSE [success |-> TRUE, accessToken |-> tokens.accessToken,
                   session |-> storeTokens(s, tokens), called |-> TRUE]

(* a request as it enters a handler *)
Request(handler, s, t) == [NoReply EXCEPT !.handler = handler, !.at = t, !.before = s]

Next1(req) == [req EXCEPT !.nextCalls = req.nextCalls + 1]

Respond(req, status, code) == [req EXCEPT !.status = status, !.code = code]

Caught(req) == [req EXCEPT !.threw = TRUE]

(* extractUserToken on session s at time t; g is Google's answer to a      *)
(* refresh, throws says that getOAuthService() throws                      *)
extractUserToken_reject(s, t, g, throws) ==
    LET req == Request("extractUserToken", s, t)
    IN  IF ~Truthy(s.accessToken) THEN [session |-> s, reply |-> Next1(req)]
        ELSE IF throws THEN [session |-> s, reply |-> Respond(Caught(req), 500, "AUTH_ERROR")]
        ELSE IF s.expiresAt # 0 /\ isTokenExpired(t, s.expiresAt)
        THEN LET r == attemptTokenRefresh(s, t, g)
             IN  IF r.success
                 THEN [session |-> r.session,
                       reply |-> Next1([req EXCEPT !.refreshAttempted = r.called,
                                                   !.accessToken = r.accessToken])]
                 ELSE [session |-> clearAuthSession(r.session),
                       reply |-> Respond([req EXCEPT !.refreshAttempted = r.called,
                                                          !.refreshFailed = r.called],
                                         401, "SESSION_EXPIRED")]
        ELSE [session |-> s, reply |-> Next1([req EXCEPT !.accessToken = s.accessToken])]

extractUserToken(s, t, g, throws) ==
    LET req == Request("extractUserToken", s, t)
    IN  IF ~Truthy(s.accessToken) THEN [session |-> s, reply |-> Next1(req)]
        ELSE IF throws THEN [session |-> s, reply |-> Next1(Caught(req))]
        ELSE IF s.expiresAt # 0 /\ isTokenExpired(t, s.expiresAt)
        THEN IF Truthy(s.refreshToken)
             THEN LET r == attemptTokenRefresh(s, t, g)
                  IN  IF r.success /\ Truthy(r.accessToken)
                      THEN [session |-> r.session,
                            reply |-> Next1([req EXCEPT !.refreshAttempted = r.called,
                                                        !.accessToken = r.accessToken])]
                      ELSE [session |-> clearAuthSession(r.session),
                            reply |-> Next1([req EXCEPT !.refreshAttempted = r.called,
                                                        !.refreshFailed = r.called])]
             ELSE [session |-> clearAuthSession(s), reply |-> Next1(req)]
        ELSE [session |-> s, reply |-> Next1([req EXCEPT !.accessToken = s.accessToken])]

requireAuth_fallback(s, t, g, throws) ==
    [session |-> extractUserToken(s, t, g, throws).session,
     reply |-> [extractUserToken(s, t, g, throws).reply EXCEPT !.handler = "requireAuth"]]

requireAuth(s, t, g, throws) ==
    LET req == Request("requireAuth", s, t)
    IN  IF ~Truthy(s.accessToken)
        THEN [session |-> s, reply |-> Respond(req, 401, "NOT_AUTHENTICATED")]
        ELSE IF throws THEN [session |-> s, reply |-> Respond(Caught(req), 500, "AUTH_ERROR")]
        ELSE IF s.expiresAt # 0 /\ isTokenExpired(t, s.expiresAt)
        THEN IF Truthy(s.refreshToken)
             THEN LET r == attemptTokenRefresh(s, t, g)
                  IN  IF r.success /\ Truthy(r.accessToken)
                      THEN [session |-> r.session,
                            reply |-> Next1([req EXCEPT !.refreshAttempted = r.called,
                                                        !.accessToken = r.accessToken])]
                      ELSE [session |-> clearAuthSession(r.session),
                            reply |-> Respond([req EXCEPT !.refreshAttempted = r.called,
                                                          !.refreshFailed = r.called],
                                              401, "SESSION_EXPIRED")]
             ELSE [session |-> clearAuthSession(s),
                   reply |-> Respond(req, 401, "SESSION_EXPIRED")]
        ELSE [session |-> s, reply |-> Next1([req EXCEPT !.accessToken = s.accessToken])]

(* POST /api/auth/google: a new state and code verifier go into the session *)
postGoogle(s, t, state) ==
    [session |-> [s EXCEPT !.oauthState = state, !.codeVerifier = "v1"],
     reply |-> Respond(Request("POST /google", s, t), 200, "")]

(* the query of GET /api/auth/google/callback *)
CallbackQueries ==
    [error : {Undefined, "access_denied"},
     state : {Undefined, NotAString} \cup OAuthStates,
     code : {Undefined, NotAString, "c1"}]

StateMatches_any(s, q) == Truthy(q.state)

(* line 118, negated: state && state === req.session.oauthState *)
StateMatches(s, q) == Truthy(q.state) /\ q.state = s.oauthState

(* GET /api/auth/google/callback; g is Google's answer to the exchange,    *)
(* user the answer of getUserInfo (Undefined: it throws)                   *)
googleCallback(s, t, q, g, user) ==
    LET req == [Request("GET /google/callback", s, t) EXCEPT !.state = q.state]
    IN  IF Truthy(q.error) THEN [session |-> s, reply |-> Respond(req, 302, "AUTH_CANCELLED")]
        ELSE IF ~StateMatches(s, q)
        THEN [session |-> s, reply |-> Respond(req, 302, "AUTH_FAILED")]
        ELSE IF ~Truthy(s.codeVerifier)
        THEN [session |-> s, reply |-> Respond(req, 302, "AUTH_FAILED")]
        ELSE IF ~Truthy(q.code) \/ q.code = NotAString
        THEN [session |-> s, reply |-> Respond(req, 302, "AUTH_FAILED")]
        ELSE LET tokens == exchangeCode(g, t)
                 exchanged == [req EXCEPT !.exchanged = TRUE]
             IN  IF tokens.thrown \/ user = Undefined
                 THEN [session |-> s, reply |-> Respond(exchanged, 302, "AUTH_FAILED")]
                 ELSE [session |-> [storeTokens(s, tokens) EXCEPT
                                        !.userId = user, !.user = user,
                                        !.oauthState = Undefined, !.codeVerifier = Undefined],
                       reply |-> Respond(exchanged, 302, "auth_success")]

clearRemaining_keepUser(s) == [s EXCEPT !.accessToken = Undefined, !.expiresAt = 0]

(* lines 168-171, 296-299: the clearing that leaves refreshToken alone *)
clearRemaining(s) ==
    [s EXCEPT !.accessToken = Undefined, !.user = Undefined, !.userId = Undefined,
              !.expiresAt = 0]

(* POST /api/auth/refresh *)
postRefresh(s, t, g) ==
    LET req == Request("POST /refresh", s, t)
    IN  IF ~Truthy(s.refreshToken)
        THEN [session |-> clearRemaining(s), reply |-> Respond(req, 401, "SESSION_EXPIRED")]
        ELSE LET tokens == refreshAccessToken(s.refreshToken, g, t)
                 tried == [req EXCEPT !.refreshAttempted = TRUE]
             IN  IF tokens.thrown
                 THEN [session |-> clearAuthSession(s),
                       reply |-> Respond([tried EXCEPT !.refreshFailed = TRUE],
                                         401, "SESSION_EXPIRED")]
                 ELSE [session |-> storeTokens(s, tokens), reply |-> Respond(tried, 200, "")]

(* POST /api/auth/logout: revokeToken swallows its errors, and destroy of  *)
(* the MemoryStore does not fail; the next request finds an empty session  *)
postLogout(s, t) ==
    [session |-> NoSession, reply |-> Respond(Request("POST /logout", s, t), 200, "")]

(* GET /api/auth/me *)
getMe(s, t, g) ==
    LET req == Request("GET /me", s, t)
    IN  IF ~Truthy(s.user) THEN [session |-> s, reply |-> Respond(req, 401, "NOT_AUTHENTICATED")]
        ELSE IF s.expiresAt # 0 /\ isTokenExpired(t, s.expiresAt)
        THEN IF Truthy(s.refreshToken)
             THEN LET tokens == refreshAccessToken(s.refreshToken, g, t)
                      tried == [req EXCEPT !.refreshAttempted = TRUE]
                  IN  IF tokens.thrown
                      THEN [session |-> clearAuthSession(s),
                            reply |-> Respond([tried EXCEPT !.refreshFailed = TRUE],
                                         401, "SESSION_EXPIRED")]
                      ELSE [session |-> storeTokens(s, tokens), reply |-> Respond(tried, 200, "")]
             ELSE [session |-> clearRemaining(s), reply |-> Respond(req, 401, "SESSION_EXPIRED")]
        ELSE [session |-> s, reply |-> Respond(req, 200, "")]

(* one request handled: the session and the record of what was done *)
Handled(r) ==
    /\ session' = r.session
    /\ reply' = r.reply
    /\ UNCHANGED <<now, auth, authCalls, downloadVars, pureVars>>

(* a request to a route behind extractUserToken (metadata, download, folder) *)
ApiRequest ==
    \E throws \in BOOLEAN :
        \E g \in Answers(extractUserToken(session, now, Refused, throws).reply.refreshAttempted,
                         now) :
            Handled(extractUserToken(session, now, g, throws))

(* a request to a route behind requireAuth *)
ProtectedRequest ==
    \E throws \in BOOLEAN :
        \E g \in Answers(requireAuth(session, now, Refused, throws).reply.refreshAttempted,
                         now) :
            Handled(requireAuth(session, now, g, throws))

PostGoogle == \E state \in OAuthStates : Handled(postGoogle(session, now, state))

GoogleCallback ==
    \E q \in CallbackQueries :
        \E exchanged \in {googleCallback(session, now, q, Refused, Undefined).reply.exchanged} :
            \E g \in Answers(exchanged, now),
               user \in (IF exchanged THEN GoogleUsers ELSE {}) \cup {Undefined} :
                Handled(googleCallback(session, now, q, g, user))

PostRefresh ==
    \E g \in Answers(postRefresh(session, now, Refused).reply.refreshAttempted, now) :
        Handled(postRefresh(session, now, g))

PostLogout == Handled(postLogout(session, now))

GetMe ==
    \E g \in Answers(getMe(session, now, Refused).reply.refreshAttempted, now) :
        Handled(getMe(session, now, g))

(* time passes between two requests *)
Tick ==
    /\ now < MaxTicks * TickMs
    /\ now' = now + TickMs
    /\ UNCHANGED <<session, reply, auth, authCalls, downloadVars, pureVars>>

ANext ==
    \/ ApiRequest
    \/ ProtectedRequest
    \/ PostGoogle
    \/ GoogleCallback
    \/ PostRefresh
    \/ PostLogout
    \/ GetMe
    \/ Tick

SpecAuth == DInit /\ [][ANext]_vars

----------------------------------------------------------------------------
(* The client's authentication: the auth actions of the store              *)
(* (useAppStore.ts) over the AuthService (authService.ts).  Each async     *)
(* action is two steps: up to its await, and from the settled await on.    *)

AuthErrorCode == {"AUTH_CANCELLED", "AUTH_FAILED", "NETWORK_ERROR", "SESSION_EXPIRED"}

authErrorMessages ==
    [code \in AuthErrorCode |->
        CASE code = "AUTH_CANCELLED" ->
                 [message |-> "Login dibatalkan",
                  suggestion |-> "Klik tombol login untuk mencoba lagi"]
          [] code = "AUTH_FAILED" ->
                 [message |-> "Autentikasi gagal",
                  suggestion |-> "Terjadi kesalahan saat login. Silakan coba lagi"]
          [] code = "NETWORK_ERROR" ->
                 [message |-> "Koneksi gagal",
                  suggestion |-> "Periksa koneksi internet dan coba lagi"]
          [] code = "SESSION_EXPIRED" ->
                 [message |-> "Sesi berakhir",
                  suggestion |-> "Silakan login kembali untuk melanjutkan"]]

getAuthErrorMessage_messageOnly(code) ==
    IF code \in DOMAIN authErrorMessages
        THEN [authErrorMessages[code] EXCEPT !.suggestion = ""]
        ELSE [message |-> "Terjadi kesalahan autentikasi", suggestion |-> ""]

getAuthErrorMessage(code) ==
    IF code \in DOMAIN authErrorMessages
        THEN authErrorMessages[code]
        ELSE [message |-> "Terjadi kesalahan autentikasi",
              suggestion |-> "Silakan coba login kembali"]

createAuthError(code) == [code |-> code, message |-> getAuthErrorMessage(code).message]

(* set({ isAuthLoading: true, authError: null, authErrorCode: null }) *)
beginAuthAction(a) ==
    [a EXCEPT !.isAuthLoading = TRUE, !.authError = "null", !.authErrorCode = "null"]

(* the catch blocks of login, logout and handleAuthCallback *)
authActionFailed(a, error) ==
    [a EXCEPT !.isAuthLoading = FALSE, !.authError = error.message,
              !.authErrorCode = error.code]

(* an action of the store starts and reaches its await *)
Begin(name, a) ==
    /\ authCalls[name] = "idle"
    /\ auth' = a
    /\ authCalls' = [authCalls EXCEPT ![name] = "awaiting"]
    /\ UNCHANGED <<session, now, reply, downloadVars, pureVars>>

(* the await of an action settles and the action runs to its end *)
Finish(name, a) ==
    /\ authCalls[name] = "awaiting"
    /\ auth' = a
    /\ authCalls' = [authCalls EXCEPT ![name] = "idle"]
    /\ UNCHANGED <<session, now, reply, downloadVars, pureVars>>

login == Begin("login", beginAuthAction(auth))

(* initiateLogin got the authUrl: the page is left for Google's consent    *)
(* screen and the application starts anew when the browser comes back      *)
loginRedirects ==
    /\ authCalls["login"] = "awaiting"
    /\ auth' = initialAuth
    /\ authCalls' = [a \in AuthActions |-> "idle"]
    /\ UNCHANGED <<session, now, reply, downloadVars, pureVars>>

(* initiateLogin throws AUTH_FAILED (no authUrl) or NETWORK_ERROR *)
loginFails(code) == Finish("login", authActionFailed(auth, createAuthError(code)))

logout == Begin("logout", beginAuthAction(auth))

logoutSucceeds ==
    Finish("logout", [auth EXCEPT !.user = "null", !.isAuthenticated = FALSE,
                                  !.isAuthLoading = FALSE, !.authError = "null",
                                  !.authErrorCode = "null"])

(* POST /api/auth/logout fails (no connection, or a 500 answer): the       *)
(* AuthService throws NETWORK_ERROR and the store's catch block runs       *)
logoutFails == Finish("logout", authActionFailed(auth, createAuthError("NETWORK_ERROR")))

checkAuth == Begin("checkAuth", [auth EXCEPT !.isAuthLoading = TRUE])

(* AuthService.checkAuth answers the user of GET /me, or null on any error *)
checkAuthDone(user) ==
    Finish("checkAuth", [auth EXCEPT !.user = user, !.isAuthenticated = (user # "null"),
                                     !.isAuthLoading = FALSE])

handleAuthCallback == Begin("handleAuthCallback", beginAuthAction(auth))

(* handleCallback answers a user, or null without auth_success or when the *)
(* user cannot be fetched                                                  *)
handleAuthCallbackDone(user) ==
    Finish("handleAuthCallback",
           IF user # "null"
           THEN [auth EXCEPT !.user = user, !.isAuthenticated = TRUE, !.isAuthLoading = FALSE]
           ELSE [auth EXCEPT !.isAuthLoading = FALSE])

(* the URL carries auth_error: handleCallback throws the AuthError *)
handleAuthCallbackFails(code) ==
    Finish("handleAuthCallback", authActionFailed(auth, createAuthError(code)))

clearAuthError ==
    /\ auth' = [auth EXCEPT !.authError = "null", !.authErrorCode = "null"]
    /\ UNCHANGED <<authCalls, session, now, reply, downloadVars, pureVars>>

SNext ==
    \/ login
    \/ loginRedirects
    \/ \E code \in {"AUTH_FAILED", "NETWORK_ERROR"} : loginFails(code)
    \/ logout
    \/ logoutSucceeds
    \/ logoutFails
    \/ checkAuth
    \/ \E user \in GoogleUsers \cup {"null"} : checkAuthDone(user)
    \/ handleAuthCallback
    \/ \E user \in GoogleUsers \cup {"null"} : handleAuthCallbackDone(user)
    \/ \E code \in AuthErrorCode : handleAuthCallbackFails(code)
    \/ clearAuthError

SpecAuthStore == DInit /\ [][SNext]_vars

----------------------------------------------------------------------------
(* calculateFolderProgress of the store (useAppStore.ts), applied to       *)
(* arbitrary lists of member ids over arbitrary tracked tasks.  A quotient *)
(* of two numbers is kept as the fraction num / den.                       *)

MaxMembers == 3      \* members of a folder

MemberIds == Files \cup {"f3"}       \* "f3" never has a task

ProgressValues == {0, 25, 50, 100}

(* downloads.get(fileId): NoTask where the map has no entry *)
taskOf(ds, fileId) == IF fileId \in DOMAIN ds THEN ds[fileId] ELSE NoTask

Fraction(num, den) == [num |-> num, den |-> den]

(* the loop of lines 783-789: the sum over the first n members *)
RECURSIVE totalProgress(_, _, _)
totalProgress(ds, fileIds, n) ==
    IF n = 0 THEN 0
    ELSE totalProgress(ds, fileIds, n - 1)
         + (IF taskOf(ds, fileIds[n]) # NoTask THEN taskOf(ds, fileIds[n]).progress ELSE 0)

calculateFolderProgress_trackedOnly(ds, fileIds) ==
    IF Len(fileIds) = 0 THEN Fraction(0, 1)
    ELSE Fraction(totalProgress(ds, fileIds, Len(fileIds)),
                  Max2(1, Cardinality({i \in 1..Len(fileIds) : taskOf(ds, fileIds[i]) # NoTask})))

calculateFolderProgress(ds, fileIds) ==
    IF Len(fileIds) = 0 THEN Fraction(0, 1)
    ELSE Fraction(totalProgress(ds, fileIds, Len(fileIds)), Len(fileIds))

MemberLists == UNION {[1..n -> MemberIds] : n \in 0..MaxMembers}

(* clearCompleted, lines 744-755 *)
clearCompleted(ds) ==
    [f \in DOMAIN ds |-> IF ds[f] # NoTask /\ ds[f].status = "completed" THEN NoTask ELSE ds[f]]

(* the Partial<DownloadProgress> values the application passes to          *)
(* updateDownloadProgress                                                  *)
Patches ==
    [progress : ProgressValues]
    \cup [status : {"downloading"}]
    \cup [status : {"completed"}, progress : {100}]
    \cup [status : {"failed"}, error : {errorMessages["NETWORK_ERROR"]}]

(* a call of an action of the store, from any component; what a function   *)
(* returned before was computed from the store as it was                   *)
StoreSet(ds) ==
    /\ downloads' = ds
    /\ input' = NoCall
    /\ output' = NoCall
    /\ UNCHANGED <<heap, retryStates, calls, lastOp, acted, abortControllers, started, folder,
                   authVars>>

StoreStartDownload == \E fileId \in Files : StoreSet(startDownload(downloads, fileId))

StoreUpdateDownloadProgress ==
    \E fileId \in Files, patch \in Patches :
        StoreSet(updateDownloadProgress(downloads, fileId, patch))

StoreCancelDownload == \E fileId \in Files : StoreSet(cancelDownload(downloads, fileId))

StoreRetryDownload == \E fileId \in Files : StoreSet(retryDownload(downloads, fileId))

StoreClearCompleted == StoreSet(clearCompleted(downloads))

CalculateFolderProgress ==
    /\ \E fileIds \in MemberLists :
           /\ input' = [of |-> "calculateFolderProgress", fileIds |-> fileIds]
           /\ output' = [of |-> "calculateFolderProgress",
                         value |-> calculateFolderProgress(downloads, fileIds)]
    /\ UNCHANGED <<downloadVars, authVars>>

GNext ==
    \/ StoreStartDownload
    \/ StoreUpdateDownloadProgress
    \/ StoreCancelDownload
    \/ StoreRetryDownload
    \/ StoreClearCompleted
    \/ CalculateFolderProgress

SpecStore == DInit /\ [][GNext]_vars

----------------------------------------------------------------------------
(* LinkParserService (src/src/services/linkParser.ts).  A string is a      *)
(* sequence of pieces: the literal parts of the three patterns, runs of    *)
(* characters of the id class [a-zA-Z0-9_-], and other characters.  A      *)
(* JavaScript value that is not a string has type "other".                 *)

Str(chars) == [type |-> "string", chars |-> chars]

NotString == [type |-> "other", chars |-> <<>>]

JsNull == [type |-> "null", chars |-> <<>>]

(* runs of id characters, with their lengths in characters *)
IdChunkLen ==
    [chunk \in {"a", "-", "_", "bcdefghij", "ABCDEFGHIJ", "0123456789_klmnopqrstuvwxyzKLMNOPQRS-"}
        |-> CASE chunk \in {"a", "-", "_"} -> 1
              [] chunk = "bcdefghij" -> 9
              [] chunk = "ABCDEFGHIJ" -> 10
              [] OTHER -> 34]

IdChunks == DOMAIN IdChunkLen

Whitespace == {" "}

(* pieces that begin with a slash *)
SlashPieces == {"/", "/file/d/", "/file/", "/drive/folders/", "/view", "/edit", "/open?id="}

(* String.prototype.trim *)
RECURSIVE trim(_)
trim(chars) ==
    IF chars = <<>> THEN chars
    ELSE IF Head(chars) \in Whitespace THEN trim(Tail(chars))
    ELSE IF chars[Len(chars)] \in Whitespace THEN trim(SubSeq(chars, 1, Len(chars) - 1))
    ELSE chars

(* the capture group ([a-zA-Z0-9_-]+) applied at position i: the longest   *)
(* run of id characters that starts there                                  *)
RECURSIVE idRun(_, _)
idRun(chars, i) ==
    IF i <= Len(chars) /\ chars[i] \in IdChunks
        THEN <<chars[i]>> \o idRun(chars, i + 1)
        ELSE <<>>

(* ^https?:\/\/drive\.google\.com followed by the piece path and the group: *)
(* the match's group 1, or <<>> where the pattern does not match           *)
matchPattern(chars, path) ==
    IF /\ Len(chars) >= 4
       /\ chars[1] \in {"https://", "http://"}
       /\ chars[2] = "drive.google.com"
       /\ chars[3] = path
        THEN idRun(chars, 4)
        ELSE <<>>

FILE_D_PATTERN(chars) == matchPattern(chars, "/file/d/")

OPEN_ID_PATTERN(chars) == matchPattern(chars, "/open?id=")

FOLDER_PATTERN(chars) == matchPattern(chars, "/drive/folders/")

(* line 72: /^https?:\/\/drive\.google\.com\// *)
hasDrivePrefix(chars) ==
    /\ Len(chars) >= 3
    /\ chars[1] \in {"https://", "http://"}
    /\ chars[2] = "drive.google.com"
    /\ chars[3] \in SlashPieces

(* !url || typeof url !== 'string' *)
notAUrl(url) == url.type # "string" \/ url.chars = <<>>

isValidGoogleDriveUrl_prefixOnly(url) ==
    IF notAUrl(url) THEN FALSE
    ELSE hasDrivePrefix(trim(url.chars))

isValidGoogleDriveUrl(url) ==
    IF notAUrl(url) THEN FALSE
    ELSE LET trimmedUrl == trim(url.chars)
         IN  IF ~hasDrivePrefix(trimmedUrl) THEN FALSE
             ELSE \/ FILE_D_PATTERN(trimmedUrl) # <<>>
                  \/ OPEN_ID_PATTERN(trimmedUrl) # <<>>
                  \/ FOLDER_PATTERN(trimmedUrl) # <<>>

(* the id, or <<>> for null *)
extractFileId(url) ==
    IF notAUrl(url) THEN <<>>
    ELSE LET trimmedUrl == trim(url.chars)
         IN  IF FILE_D_PATTERN(trimmedUrl) # <<>> THEN FILE_D_PATTERN(trimmedUrl)
             ELSE IF OPEN_ID_PATTERN(trimmedUrl) # <<>> THEN OPEN_ID_PATTERN(trimmedUrl)
             ELSE <<>>

extractFolderId(url) ==
    IF notAUrl(url) THEN <<>>
    ELSE FOLDER_PATTERN(trim(url.chars))

NullLink == [type |-> "null", id |-> <<>>, originalUrl |-> <<>>]

parse(url) ==
    IF notAUrl(url) THEN NullLink
    ELSE LET trimmedUrl == Str(trim(url.chars))
         IN  IF ~isValidGoogleDriveUrl(trimmedUrl) THEN NullLink
             ELSE IF extractFileId(trimmedUrl) # <<>>
                 THEN [type |-> "file", id |-> extractFileId(trimmedUrl),
                       originalUrl |-> trimmedUrl.chars]
             ELSE IF extractFolderId(trimmedUrl) # <<>>
                 THEN [type |-> "folder", id |-> extractFolderId(trimmedUrl),
                       originalUrl |-> trimmedUrl.chars]
             ELSE NullLink

reconstructUrl_folderOnly(parsedLink) ==
    Str(<<"https://", "drive.google.com", "/drive/folders/">> \o parsedLink.id)

reconstructUrl(parsedLink) ==
    IF parsedLink.type = "file"
        THEN Str(<<"https://", "drive.google.com", "/file/d/">> \o parsedLink.id \o <<"/view">>)
        ELSE Str(<<"https://", "drive.google.com", "/drive/folders/">> \o parsedLink.id)

(* the strings handed to the parser: any lead, scheme, host, path, id and  *)
(* tail, well-formed or not                                                *)
Leads == {<<>>, <<" ">>, <<"#">>}

Schemes == {<<"https://">>, <<"http://">>, <<"ftp://">>, <<"HTTPS://">>, <<>>}

Hosts == {<<"drive.google.com">>, <<"docs.google.com">>, <<"sub.", "drive.google.com">>,
          <<"drive.google.com", ".evil.com">>}

Paths == {<<"/file/d/">>, <<"/open?id=">>, <<"/drive/folders/">>, <<"/file/">>, <<"/">>, <<>>}

Ids == {<<>>, <<"a">>, <<"-">>, <<"a", "_">>, <<"bcdefghij">>, <<"ABCDEFGHIJ">>,
        <<"a", "bcdefghij">>, <<"ABCDEFGHIJ", "0123456789_klmnopqrstuvwxyzKLMNOPQRS-">>,
        <<"ABCDEFGHIJ", "0123456789_klmnopqrstuvwxyzKLMNOPQRS-", "a">>}

Tails == {<<>>, <<"/view">>, <<"?usp=sharing">>, <<"/view", "?usp=sharing">>,
          <<"&usp=sharing">>, <<"/edit">>, <<"#">>, <<" ">>, <<"/view", "#">>, <<"/">>}

Urls ==
    {Str(lead \o scheme \o host \o path \o id \o tail) :
        lead \in Leads, scheme \in Schemes, host \in Hosts, path \in Paths,
        id \in Ids, tail \in Tails}
    \cup {Str(<<>>), Str(<<" ">>), NotString, JsNull}

Called(name, arg, value) ==
    /\ input' = [of |-> name, arg |-> arg]
    /\ output' = [of |-> name, value |-> value]
    /\ UNCHANGED <<downloadVars, authVars>>

(* a value is handed to the parser *)
LInit ==
    /\ Idle
    /\ input \in {[of |-> "given", arg |-> url] : url \in Urls}
    /\ output = NoCall

Parse ==
    /\ input.of = "given"
    /\ Called("parse", input.arg, parse(input.arg))

IsValidGoogleDriveUrl ==
    /\ input.of = "given"
    /\ Called("isValidGoogleDriveUrl", input.arg, isValidGoogleDriveUrl(input.arg))

(* reconstructUrl of a link that parse has returned *)
ReconstructUrl ==
    /\ output.of = "parse" /\ output.value # NullLink
    /\ Called("reconstructUrl", output.value, reconstructUrl(output.value))

(* parse of a URL that reconstructUrl has returned; the link it was built  *)
(* from stays in the record                                                *)
ParseReconstructed ==
    /\ output.of = "reconstructUrl"
    /\ input' = [of |-> "reparse", arg |-> output.value, link |-> input.arg]
    /\ output' = [of |-> "reparse", value |-> parse(output.value)]
    /\ UNCHANGED <<downloadVars, authVars>>

LNext ==
    \/ Parse
    \/ IsValidGoogleDriveUrl
    \/ ReconstructUrl
    \/ ParseReconstructed

SpecLinkParser == LInit /\ [][LNext]_vars

----------------------------------------------------------------------------
(* The error tables and the classification of upstream failures, applied   *)
(* to arbitrary errors and codes: GoogleDriveService.handleApiError        *)
(* (server), getErrorMessage and getAuthErrorMessage (client).             *)

(* error.code of a failure of the upstream API; 0: the error carries no    *)
(* status, as when no response was received                                *)
StatusCodes == {0, 400, 401, 403, 404, 429, 500, 503}

Reasons ==
    {"undefined", "notFound", "forbidden", "authError", "backendError", "dailyLimitExceeded"}
    \cup RateLimited

GaxiosErrors == [code : StatusCodes, reason : Reasons]

(* strings passed as a code: the members of both enumerations and one that *)
(* belongs to neither                                                      *)
CodeStrings == ErrorCode \cup AuthErrorCode \cup {"UNKNOWN"}

EInit ==
    /\ Idle
    /\ \/ input \in {[of |-> "given", kind |-> "error", arg |-> e] : e \in GaxiosErrors}
       \/ input \in {[of |-> "given", kind |-> "code", arg |-> code] : code \in CodeStrings}
    /\ output = NoCall

HandleApiError ==
    /\ input.of = "given" /\ input.kind = "error"
    /\ Called("handleApiError", input.arg, handleApiError(input.arg))

(* the client looks up the text for a code it was given, or for the code   *)
(* of a classified failure                                                 *)
GetErrorMessage ==
    \/ /\ input.of = "given" /\ input.kind = "code"
       /\ Called("getErrorMessage", input.arg, getErrorMessage(input.arg))
    \/ /\ output.of = "handleApiError"
       /\ Called("getErrorMessage", output.value.code, getErrorMessage(output.value.code))

GetAuthErrorMessage ==
    /\ input.of = "given" /\ input.kind = "code"
    /\ Called("getAuthErrorMessage", input.arg, getAuthErrorMessage(input.arg))

ENext ==
    \/ HandleApiError
    \/ GetErrorMessage
    \/ GetAuthErrorMessage

SpecErrors == EInit /\ [][ENext]_vars

----------------------------------------------------------------------------
(* CLAIMS *)

Started(c) == calls[c].pc # "idle"

FailedReturn(c) == calls[c].pc = "returned" /\ ~calls[c].result.success

AllRetryable(c) ==
    \A i \in 1..Len(calls[c].fails) : isRetryableError(calls[c].fails[i])

(* C1 (as claimed): a call that starts on a RetryState left with           *)
(* attempts = maxRetries by a failed executeWithRetry, with no reset in    *)
(* between, never invokes the operation and does not return success.       *)
C1_NoInvocationWhenExhausted ==
    \A c \in Slots :
        (Started(c) /\ calls[c].startAfter = "execFail"
                    /\ calls[c].startAttempts = maxRetries)
            => (calls[c].invoked = 0 /\ (calls[c].pc = "returned" => FailedReturn(c)))

(* C2: a call that starts at attempts = 0 and sees only retryable failures *)
(* invokes the operation at most 3 times, and when it returns failure it   *)
(* has invoked it exactly 3 times and reports attempts = 3; it has         *)
(* returned as soon as the third failure is in.                            *)
C2_ExactlyMaxRetries ==
    \A c \in Slots :
        (Started(c) /\ calls[c].startAttempts = 0 /\ AllRetryable(c))
            => /\ calls[c].invoked <= 3
               /\ FailedReturn(c) =>
                      (calls[c].invoked = 3 /\ Len(calls[c].fails) = 3
                       /\ calls[c].result.attempts = 3)
               /\ Len(calls[c].fails) = 3 => FailedReturn(c)

C2_Witness ==
    \E c \in Slots :
        /\ FailedReturn(c) /\ calls[c].startAttempts = 0 /\ AllRetryable(c)
        /\ calls[c].invoked = 3 /\ calls[c].result.attempts = 3

(* C3 (as claimed): every RetryState in the map has 0 <= attempts <= 3.    *)
C3_AttemptsWithinBound ==
    \A op \in OpIds :
        retryStates[op] # Null =>
            (heap[retryStates[op]].attempts >= 0
             /\ heap[retryStates[op]].attempts <= maxRetries)

(* C5 (as claimed): the delay slept before invocation k (k >= 2) of one    *)
(* call is min(1000 * 2^(k-2), 10000) ms.                                  *)
C5_DelayByInvocation ==
    \A c \in Slots : \A i \in 1..Len(calls[c].delays) :
        calls[c].delays[i] = Min2(1000 * 2^(i - 1), 10000)

(* C5 (amended): the i-th delay of a call is min(1000 * 2^(a-1), 10000) ms *)
(* where a is the attempts count of the RetryState after the failure, that *)
(* is the count the call started with plus i; a call that starts at        *)
(* attempts = 0 sleeps 1000 ms before its 2nd and 2000 ms before its 3rd   *)
(* invocation; no delay exceeds 10000 ms.                                  *)
C5_DelayByAttempts ==
    \A c \in Slots : \A i \in 1..Len(calls[c].delays) :
        /\ calls[c].delays[i] = Min2(1000 * 2^(calls[c].startAttempts + i - 1), 10000)
        /\ calls[c].delays[i] <= 10000
        /\ calls[c].startAttempts = 0 =>
               calls[c].delays[i] = (IF i = 1 THEN 1000 ELSE 2000)
        /\ Len(calls[c].delays) < calls[c].invoked + 1

C5_Witness ==
    \E c \in Slots :
        calls[c].startAttempts = 0 /\ calls[c].delays = <<1000, 2000>>
                                   /\ calls[c].invoked = 3

(* C7: right after resetState on an exhausted RetryState canRetry is true  *)
(* and getRemainingAttempts is 3, and the call that follows, seeing only   *)
(* retryable failures, invokes the operation exactly 3 times before it     *)
(* returns failure.                                                        *)
C7_ResetRestoresBudget ==
    /\ \A op \in OpIds :
           lastOp[op] = "resetExhausted" =>
               (managerCanRetry(Cur, op) /\ getRemainingAttempts(Cur, op) = 3)
    /\ \A c \in Slots :
           (Started(c) /\ calls[c].startAfter = "resetExhausted" /\ AllRetryable(c))
               => /\ calls[c].invoked <= 3
                  /\ FailedReturn(c) => calls[c].invoked = 3
                  /\ Len(calls[c].fails) = 3 => FailedReturn(c)

C7_Witness ==
    \E c \in Slots :
        /\ calls[c].startAfter = "resetExhausted" /\ AllRetryable(c)
        /\ FailedReturn(c) /\ calls[c].invoked = 3

(* what a caller can observe of an operationId's RetryState *)
View(op) ==
    IF retryStates[op] = Null THEN <<"absent">>
    ELSE <<heap[retryStates[op]].attempts, heap[retryStates[op]].lastError>>

(* C8: a step of executeWithRetry, recordAttempt or resetState (or any     *)
(* other RetryManager operation) on one operationId leaves the RetryState  *)
(* of every other operationId as it was.                                   *)
C8_Frame ==
    [][\A b \in OpIds : b # acted' => View(b)' = View(b)]_vars

C8_Witness ==
    \E a \in OpIds, b \in OpIds :
        /\ a # b /\ acted = a
        /\ retryStates[a] # Null /\ retryStates[b] # Null
        /\ heap[retryStates[a]].attempts = 3
        /\ heap[retryStates[b]].attempts = 1

AttemptsOf(op) == IF retryStates[op] = Null THEN 0 ELSE heap[retryStates[op]].attempts

NonRetryable == ErrorCode \ {"NETWORK_ERROR", "DOWNLOAD_FAILED"}

(* the step in which the handler of call c takes up the result *)
TakesResult(c) == calls[c].pc = "returned" /\ calls'[c].pc = "idle"

(* C4: once an invocation has failed with a non-retryable error kind the   *)
(* call has returned failure with that kind, without a further invocation  *)
(* and without a delay after it; when it was the first invocation the call *)
(* has invoked the operation exactly once and slept not at all.  A         *)
(* download whose answer to its first request stems from an upstream 403   *)
(* with a rate-limit reason returns QUOTA_EXCEEDED after one invocation    *)
(* and no delay, and its task becomes failed with the QUOTA_EXCEEDED text. *)
C4_NonRetryableSurfacesAtOnce ==
    /\ [](\A c \in Slots : \A i \in 1..Len(calls[c].fails) :
            calls[c].fails[i] \in NonRetryable =>
                /\ i = Len(calls[c].fails)
                /\ FailedReturn(c) /\ calls[c].result.error = calls[c].fails[i]
                /\ calls[c].invoked = i /\ Len(calls[c].delays) = i - 1
                /\ (calls[c].answer \in RateLimited =>
                        calls[c].result.error = "QUOTA_EXCEEDED"))
    /\ [][\A c \in Slots :
            (TakesResult(c) /\ calls[c].answer \in RateLimited) =>
                /\ downloads'[calls[c].file].status = "failed"
                /\ downloads'[calls[c].file].error
                       = errorMessages["QUOTA_EXCEEDED"].message]_vars

C4_Witness ==
    \E f \in Files :
        /\ downloads[f].status = "failed"
        /\ downloads[f].error = errorMessages["QUOTA_EXCEEDED"].message
        /\ AttemptsOf(operationId(f)) = 1
        /\ heap[retryStates[operationId(f)]].lastError = "QUOTA_EXCEEDED"
        /\ ~Busy(operationId(f))

(* C6 (as claimed): a call that returns success after j retryable failures *)
(* reports attempts = j + 1 and leaves the RetryState at attempts = 0.     *)
C6_AttemptsCountInvocations ==
    \A c \in Slots :
        (calls[c].pc = "returned" /\ calls[c].result.success /\ AllRetryable(c))
            => /\ calls[c].result.attempts = Len(calls[c].fails) + 1
               /\ AttemptsOf(calls[c].op) = 0

(* C6 (amended): a call that no other call on the same operationId         *)
(* overlaps and that returns success after j failures has seen only        *)
(* retryable failures, has invoked the operation j + 1 times and slept j   *)
(* times, reports attempts = p + j + 1 where p is the attempts count of    *)
(* the RetryState when the call started (j + 1 when it started at 0), and  *)
(* leaves a fresh RetryState in the map; j = 2 happens only from p = 0,    *)
(* with delays of 1000 and 2000 ms; and the task of a download whose call  *)
(* returned success becomes completed with progress 100.                   *)
C6_AttemptsCountFromPrior ==
    /\ [](\A c \in Slots :
            (calls[c].pc = "returned" /\ calls[c].result.success /\ ~calls[c].overlap)
                => /\ AllRetryable(c)
                   /\ calls[c].invoked = Len(calls[c].fails) + 1
                   /\ Len(calls[c].delays) = Len(calls[c].fails)
                   /\ calls[c].result.attempts
                          = calls[c].startAttempts + Len(calls[c].fails) + 1
                   /\ (calls[c].startAttempts = 0 =>
                           calls[c].result.attempts = Len(calls[c].fails) + 1)
                   /\ retryStates[calls[c].op] # Null
                   /\ heap[retryStates[calls[c].op]] = createRetryState
                   /\ (Len(calls[c].fails) = 2 =>
                           (calls[c].startAttempts = 0
                            /\ calls[c].delays = <<1000, 2000>>)))
    /\ [][\A c \in Slots :
            (TakesResult(c) /\ calls[c].result.success) =>
                /\ downloads'[calls[c].file].status = "completed"
                /\ downloads'[calls[c].file].progress = 100]_vars

C6_Witness ==
    \E c \in Slots :
        /\ calls[c].pc = "returned" /\ calls[c].result.success /\ ~calls[c].overlap
        /\ Len(calls[c].fails) = 2 /\ calls[c].delays = <<1000, 2000>>
        /\ calls[c].result.attempts = 3
        /\ downloads[calls[c].file].status = "downloading"

(* C9 (as claimed): a task that is cancelled stays cancelled until the     *)
(* user starts it again, which makes it downloading; it never goes from    *)
(* cancelled to failed or completed.                                       *)
C9_CancelledStays ==
    [][\A f \in Files :
          downloads[f].status = "cancelled" =>
              downloads'[f].status \in {"cancelled", "downloading"}]_vars

(* C10 (as claimed): once the request of a call has been aborted, the call *)
(* records no further failure, the operation is not invoked again, and the *)
(* attempts counter of its operationId stays as it is (as long as no other *)
(* call shares the operationId).                                           *)
C10_CancelNotCounted ==
    [][\A c \in InFlight(calls) :
          calls[c].aborted =>
              /\ Len(calls'[c].fails) = Len(calls[c].fails)
              /\ calls'[c].invoked = calls[c].invoked
              /\ (~calls[c].overlap =>
                      AttemptsOf(calls[c].op)' = AttemptsOf(calls[c].op))]_vars

(* C11 (as claimed): while a task is downloading, a step that leaves it    *)
(* downloading never lowers its progress value.                            *)
C11_ProgressMonotone ==
    [][\A f \in Files :
          (downloads[f].status = "downloading" /\ downloads'[f].status = "downloading")
              => downloads'[f].progress >= downloads[f].progress]_vars

(* C12: a download's task is in the store when its call returns; when the  *)
(* handler takes up a failure the task becomes failed, its error message   *)
(* is a non-empty text and its progress value is what it was.              *)
C12_FailureKeepsProgress ==
    /\ [](\A c \in Slots : calls[c].pc = "returned" => downloads[calls[c].file] # NoTask)
    /\ [][\A c \in Slots :
            (TakesResult(c) /\ ~calls[c].result.success) =>
                /\ downloads'[calls[c].file].status = "failed"
                /\ downloads'[calls[c].file].error \notin {"", "undefined"}
                /\ downloads'[calls[c].file].progress
                       = downloads[calls[c].file].progress]_vars

C12_Witness ==
    \E f \in Files :
        /\ downloads[f].status = "failed"
        /\ downloads[f].progress = 50
        /\ downloads[f].error = errorMessages["NETWORK_ERROR"].message
        /\ ~Busy(operationId(f))

(* the calls made by the loop over the folder that have not been taken up *)
BatchCalls == {c \in Slots : calls[c].batch /\ calls[c].pc # "idle"}

C14_BatchRunsToEnd ==
    /\ [][(folder.pc = "running" /\ folder'.pc = "idle") =>
              folder.index = Len(FileSeq)]_vars
    /\ [][\A c \in Slots :
            (calls[c].batch /\ calls[c].pc = "returned") =>
                /\ downloads'[calls[c].file].status
                       = (IF calls[c].result.success THEN "completed" ELSE "failed")
                /\ folder.index < Len(FileSeq) =>
                       (folder'.pc = "running" /\ folder'.index = folder.index + 1)]_vars
    /\ (folder.pc = "running") ~> (folder.pc = "idle")

C14_Witness ==
    /\ folder.pc = "idle" /\ started = 1
    /\ downloads[FileSeq[1]].status = "failed"
    /\ downloads[FileSeq[2]].status = "completed"
    /\ FreeSlots = Slots

(* C15 (as claimed): extractUserToken, on a session with an access token,  *)
(* attempts a token refresh if and only if now >= expiresAt - 300000 ms.   *)
C15_RefreshIffExpired ==
    (reply.handler = "extractUserToken" /\ Truthy(reply.before.accessToken) /\ ~reply.threw)
        => (reply.refreshAttempted <=> reply.at >= reply.before.expiresAt - 300000)

(* C15 (amended): extractUserToken attempts a token refresh if and only if *)
(* the session holds an access token, now >= expiresAt - 300000 ms and the *)
(* session holds a non-empty refresh token (and the OAuth service could be *)
(* obtained); in particular it never refreshes while now < expiresAt -     *)
(* 300000 ms, and an expired token without a refresh token is cleared      *)
(* without any attempt.                                                    *)
C15_RefreshIffExpiredAndRefreshable ==
    reply.handler = "extractUserToken"
        => /\ reply.refreshAttempted <=>
                  /\ Truthy(reply.before.accessToken)
                  /\ ~reply.threw
                  /\ reply.before.expiresAt # 0
                  /\ reply.at >= reply.before.expiresAt - 300000
                  /\ Truthy(reply.before.refreshToken)
           /\ reply.at < reply.before.expiresAt - 300000 => ~reply.refreshAttempted
           /\ (/\ Truthy(reply.before.accessToken) /\ ~reply.threw
               /\ reply.at >= reply.before.expiresAt - 300000
               /\ ~Truthy(reply.before.refreshToken))
                  => session = clearAuthSession(reply.before)

(* a refresh attempted exactly at the boundary now = expiresAt - 300000 *)
C15_Witness ==
    /\ reply.handler = "extractUserToken" /\ reply.refreshAttempted
    /\ reply.at = reply.before.expiresAt - 300000

(* the session holds none of accessToken, refreshToken, expiresAt and user *)
HoldsNoAuth(s) ==
    /\ ~Truthy(s.accessToken) /\ ~Truthy(s.refreshToken)
    /\ s.expiresAt = 0 /\ ~Truthy(s.user)

(* C16: after a request in which a token refresh failed (in                *)
(* extractUserToken, requireAuth, POST /refresh or GET /me) all of         *)
(* accessToken, refreshToken, expiresAt, user and userId are deleted from  *)
(* the session; after a request refused with SESSION_EXPIRED for want of a *)
(* refresh token, and after a logout, the session holds none of them       *)
(* either; and extractUserToken on a session that holds none of them       *)
(* attaches no token to the request and leaves the session as it is.       *)
C16_FailedRefreshClearsSession ==
    /\ reply.refreshFailed =>
           /\ reply.handler \in {"extractUserToken", "requireAuth", "POST /refresh", "GET /me"}
           /\ session = clearAuthSession(reply.before)
           /\ session.accessToken = Undefined /\ session.refreshToken = Undefined
           /\ session.expiresAt = 0 /\ session.user = Undefined
    /\ reply.code = "SESSION_EXPIRED" => HoldsNoAuth(session)
    /\ reply.handler = "POST /logout" => session = NoSession
    /\ (reply.handler = "extractUserToken" /\ HoldsNoAuth(reply.before))
           => (reply.accessToken = Undefined /\ session = reply.before)

(* a refresh of an expired token of a signed-in session has failed *)
C16_Witness ==
    /\ reply.refreshFailed /\ reply.handler = "GET /me"
    /\ Truthy(reply.before.accessToken) /\ Truthy(reply.before.user)
    /\ Truthy(reply.before.refreshToken)

(* the token of the session the request started from is expired *)
ExpiredBefore(r) ==
    /\ Truthy(r.before.accessToken) /\ ~r.threw
    /\ r.before.expiresAt # 0 /\ r.at >= r.before.expiresAt - 300000

(* C17: extractUserToken never fails a request: whether the session has no *)
(* token, a valid token, a token whose refresh fails, or an unexpected     *)
(* error is caught, it calls next() exactly once, without an error         *)
(* argument, and sends no response; after a failed refresh, as with no     *)
(* token and after a caught error, req.accessToken is left unset.          *)
C17_ExtractNeverFails ==
    reply.handler = "extractUserToken"
        => /\ reply.nextCalls = 1 /\ ~reply.nextError
           /\ reply.status = 0 /\ reply.code = ""
           /\ (reply.refreshFailed \/ reply.threw \/ ~Truthy(reply.before.accessToken))
                  => reply.accessToken = Undefined
           /\ (Truthy(reply.before.accessToken) /\ ~reply.threw /\ ~ExpiredBefore(reply))
                  => reply.accessToken = reply.before.accessToken

(* the refresh of an expired token failed and the request went on *)
C17_Witness ==
    /\ reply.handler = "extractUserToken" /\ reply.refreshFailed
    /\ ExpiredBefore(reply) /\ reply.nextCalls = 1

(* C18: requireAuth, when the session's token is expired and the refresh   *)
(* fails or the session has no refresh token, responds 401 with code       *)
(* SESSION_EXPIRED and does not call next(); it calls next() only with a   *)
(* token attached to the request, so the protected handler never runs      *)
(* anonymously.                                                            *)
C18_RequireAuthRejects ==
    reply.handler = "requireAuth"
        => /\ (ExpiredBefore(reply)
                /\ (reply.refreshFailed \/ ~Truthy(reply.before.refreshToken)))
                  => (/\ reply.status = 401 /\ reply.code = "SESSION_EXPIRED"
                      /\ reply.nextCalls = 0 /\ reply.accessToken = Undefined)
           /\ reply.nextCalls = 1 => (Truthy(reply.accessToken) /\ reply.status = 0)
           /\ reply.nextCalls <= 1

(* requireAuth has refused a request whose refresh failed *)
C18_Witness ==
    /\ reply.handler = "requireAuth" /\ ExpiredBefore(reply) /\ reply.refreshFailed
    /\ reply.status = 401

(* the store's logout() finishes: its await has settled and the rest of    *)
(* the action has run                                                      *)
LogoutFinishes ==
    /\ authCalls["logout"] = "awaiting"
    /\ authCalls' = [authCalls EXCEPT !["logout"] = "idle"]

(* C19 (as claimed): whatever the auth state before, once logout() has     *)
(* finished, user is null, isAuthenticated is false and authError is null, *)
(* also when the logout request failed.                                    *)
C19_LogoutClearsLocally ==
    [][LogoutFinishes =>
          (auth'.user = "null" /\ ~auth'.isAuthenticated /\ auth'.authError = "null")]_vars

(* C20: GET /google/callback exchanges the authorization code only if the *)
(* state of the request equals the oauthState stored in the session (and   *)
(* is not empty) and a codeVerifier is stored in the session; a request    *)
(* without exchange writes nothing to the session, and one whose exchange  *)
(* or user lookup fails writes no tokens.                                  *)
C20_ExchangeOnlyWithState ==
    reply.handler = "GET /google/callback"
        => /\ reply.exchanged =>
                  /\ Truthy(reply.state) /\ reply.state = reply.before.oauthState
                  /\ Truthy(reply.before.codeVerifier)
           /\ ~reply.exchanged => session = reply.before
           /\ reply.code # "auth_success" => session = reply.before

(* a login completed: the state matched, the code was exchanged and the    *)
(* tokens are in the session                                               *)
C20_Witness ==
    /\ reply.handler = "GET /google/callback" /\ reply.exchanged
    /\ reply.state = reply.before.oauthState /\ reply.code = "auth_success"
    /\ Truthy(session.accessToken) /\ ~Truthy(reply.before.accessToken)

(* C21 (as claimed): a manual retry of a failed download puts the task     *)
(* back to 'downloading' and invokes the download operation again, however *)
(* many rounds for the file have failed before.                            *)
C21_RetryReinvokes ==
    [][\A fileId \in Files :
          (downloads[fileId].status = "failed" /\ handleRetry(fileId))
              => /\ downloads'[fileId].status = "downloading"
                 /\ \E c \in Slots :
                        /\ calls[c].pc = "idle" /\ calls'[c].file = fileId
                        /\ calls'[c].invoked >= 1]_vars

(* the sum of the members' progress values, a member without a task        *)
(* counting 0                                                              *)
RECURSIVE SumOver(_, _)
SumOver(ds, ids) ==
    IF ids = {} THEN 0
    ELSE LET i == CHOOSE k \in ids : TRUE
         IN  (IF taskOf(ds, input.fileIds[i]) = NoTask THEN 0
              ELSE taskOf(ds, input.fileIds[i]).progress)
             + SumOver(ds, ids \ {i})

(* C22: calculateFolderProgress(fileIds) is the arithmetic mean of the     *)
(* members' progress values, a member with no tracked task counting as 0,  *)
(* and 0 for the empty list; progress [100, 50, 0] gives 50.               *)
C22_FolderProgressIsMean ==
    output.of = "calculateFolderProgress"
        => LET N == Len(input.fileIds)
           IN  /\ output.value.den > 0
               /\ N = 0 => output.value.num = 0
               /\ N > 0 => output.value.num * N
                               = SumOver(downloads, 1..N) * output.value.den
               /\ (/\ N = 3
                   /\ \A i \in 1..3 : taskOf(downloads, input.fileIds[i]).progress
                                           = <<100, 50, 0>>[i])
                      => output.value.num = 50 * output.value.den

(* the mean of 100, 50 and a member that is not tracked *)
C22_Witness ==
    /\ output.of = "calculateFolderProgress"
    /\ input.fileIds = <<"f1", "f2", "f3">>
    /\ downloads["f1"] # NoTask /\ downloads["f1"].progress = 100
    /\ downloads["f2"] # NoTask /\ downloads["f2"].progress = 50
    /\ output.value.num = 50 * output.value.den

(* C23: for every locator u that parse accepts,                            *)
(* parse(reconstructUrl(parse(u))) is not null and has the type and the id *)
(* of parse(u).                                                            *)
C23_ParseRoundTrip ==
    output.of = "reparse"
        => /\ input.link # NullLink
           /\ input.arg = reconstructUrl(input.link)
           /\ output.value # NullLink
           /\ output.value.type = input.link.type
           /\ output.value.id = input.link.id

(* a link in the open?id= form, whose reconstruction has another shape,    *)
(* went round                                                              *)
C23_Witness ==
    /\ output.of = "reparse" /\ output.value.type = "file"
    /\ Len(input.link.originalUrl) >= 3 /\ input.link.originalUrl[3] = "/open?id="
    /\ input.arg.chars # input.link.originalUrl

(* C24: for every input, isValidGoogleDriveUrl(s) is true exactly when     *)
(* parse(s) is not null.                                                   *)
C24_ValidIffParses ==
    /\ output.of = "isValidGoogleDriveUrl" => (output.value <=> parse(input.arg) # NullLink)
    /\ output.of = "parse" => (output.value # NullLink <=> isValidGoogleDriveUrl(input.arg))

(* a string with the drive prefix that matches none of the patterns is     *)
(* refused by both                                                         *)
C24_Witness ==
    /\ output.of = "isValidGoogleDriveUrl" /\ ~output.value
    /\ input.arg.type = "string" /\ hasDrivePrefix(trim(input.arg.chars))
    /\ parse(input.arg) = NullLink

(* the three accepted shapes, each as a whole string:                      *)
(* /file/d/{id}/view[?...], /open?id={id}[&...], /drive/folders/{id}[?...] *)
(* on drive.google.com with an http or https scheme                        *)
AcceptedShape(chars) ==
    /\ Len(chars) >= 4
    /\ chars[1] \in {"https://", "http://"}
    /\ chars[2] = "drive.google.com"
    /\ idRun(chars, 4) # <<>>
    /\ LET rest == SubSeq(chars, 4 + Len(idRun(chars, 4)), Len(chars))
       IN  \/ chars[3] = "/file/d/" /\ rest \in {<<"/view">>, <<"/view", "?usp=sharing">>}
           \/ chars[3] = "/open?id=" /\ rest \in {<<>>, <<"&usp=sharing">>}
           \/ chars[3] = "/drive/folders/" /\ rest \in {<<>>, <<"?usp=sharing">>}

(* C25 (as claimed): parse returns null for every string that is not, as a *)
(* whole, one of the three accepted shapes; a string that only begins with *)
(* an accepted prefix is rejected.                                         *)
C25_RejectsPartialMatches ==
    (output.of = "parse" /\ input.arg.type = "string"
     /\ ~AcceptedShape(trim(input.arg.chars)))
        => output.value = NullLink

RECURSIVE idLength(_)
idLength(id) == IF id = <<>> THEN 0 ELSE IdChunkLen[Head(id)] + idLength(Tail(id))

(* C26 (as claimed): every reference returned by parse has an id made only *)
(* of characters of [A-Za-z0-9_-] and of a length between 10 and 44.       *)
C26_IdWellFormed ==
    (output.of = "parse" /\ output.value # NullLink)
        => /\ \A i \in 1..Len(output.value.id) : output.value.id[i] \in IdChunks
           /\ idLength(output.value.id) >= 10
           /\ idLength(output.value.id) <= 44

(* C27 (as claimed): every upstream failure is classified into exactly one *)
(* kind: 404 gives FILE_NOT_FOUND, 403 with a rate-limit reason gives      *)
(* QUOTA_EXCEEDED, any other 403 and 401 give ACCESS_DENIED, a failure     *)
(* with no upstream response gives NETWORK_ERROR, anything else API_ERROR. *)
C27_UpstreamClassification ==
    output.of = "handleApiError"
        => output.value.code =
               (CASE input.arg.code = 404 -> "FILE_NOT_FOUND"
                  [] input.arg.code = 403 /\ input.arg.reason \in RateLimited -> "QUOTA_EXCEEDED"
                  [] input.arg.code = 403 /\ input.arg.reason \notin RateLimited -> "ACCESS_DENIED"
                  [] input.arg.code = 401 -> "ACCESS_DENIED"
                  [] input.arg.code = 0 -> "NETWORK_ERROR"
                  [] OTHER -> "API_ERROR")

(* C28: every value of the ErrorCode enumeration and every value of the    *)
(* AuthErrorCode enumeration maps to its entry of the table, which has a   *)
(* non-empty message and a non-empty suggestion.                           *)
C28_ErrorMessageCoverage ==
    /\ (output.of = "getErrorMessage" /\ input.arg \in ErrorCode)
           => /\ output.value = errorMessages[input.arg]
              /\ output.value.message # "" /\ output.value.suggestion # ""
              /\ output.value.message # getErrorMessage("UNKNOWN").message
    /\ (output.of = "getAuthErrorMessage" /\ input.arg \in AuthErrorCode)
           => /\ output.value = authErrorMessages[input.arg]
              /\ output.value.message # "" /\ output.value.suggestion # ""
              /\ output.value.message # getAuthErrorMessage("UNKNOWN").message

(* the text of the last member of the auth enumeration was looked up *)
C28_Witness ==
    /\ output.of = "getAuthErrorMessage" /\ input.arg = "SESSION_EXPIRED"
    /\ output.value.message = "Sesi berakhir"

(* C29 (as claimed): a task whose status is 'completed' keeps that status  *)
(* under cancel, remove from queue, retry and a late progress callback,    *)
(* and it leaves the tracked set only through clearCompleted.              *)
C29_CompletedIsFinal ==
    [][\A fileId \in Files :
           (taskOf(downloads, fileId) # NoTask /\ taskOf(downloads, fileId).status = "completed")
               => /\ (\/ downloads' = cancelDownload(downloads, fileId)
                      \/ downloads' = retryDownload(downloads, fileId)
                      \/ \E patch \in [progress : ProgressValues] :
                             downloads' = updateDownloadProgress(downloads, fileId, patch))
                         => /\ taskOf(downloads', fileId) # NoTask
                            /\ taskOf(downloads', fileId).status = "completed"
                  /\ taskOf(downloads', fileId) = NoTask
                         => downloads' = clearCompleted(downloads)]_vars

(* C30: in every reachable server session state, session.user is present   *)
(* if and only if session.accessToken is present.                          *)
C30_UserIffAccessToken == Truthy(session.user) <=> Truthy(session.accessToken)

(* a session that was logged in and whose access token was then replaced   *)
(* by a refresh: both fields are present                                   *)
C30_Witness ==
    /\ reply.refreshAttempted /\ ~reply.refreshFailed
    /\ Truthy(reply.before.user)
    /\ session.accessToken # reply.before.accessToken
    /\ Truthy(session.user) /\ Truthy(session.accessToken)

====
